---- MODULE Spec2Model ----
(***************************************************************************)
(* The document store and lock manager of openera (server/openera/db.py,   *)
(* server/openera/resources.py): the "schema" table, the lease protocol of *)
(* Transaction.set_lock, and the handlers that write, rename and delete    *)
(* documents inside do_transaction.                                        *)
(***************************************************************************)
EXTENDS Integers, Sequences, FiniteSets, TLC

VARIABLES
    schema,   \* the "schema" table: its rows in rowid (scan) order
    now,      \* the wall clock read by _unix_now(), in seconds
    req,      \* per client: the request received, waiting or answered, or Idle
    last,     \* the request served by the latest step and its outcome, or NoTxn
    wd_node,  \* the "wd_node" table: the Wikidata nodes with a cached label
    all_ids   \* the set of @id's a caller passes to ensure_valid_cmu_id

vars == <<schema, now, req, last, wd_node, all_ids>>

(***************************************************************************)
(* Values.                                                                 *)
(***************************************************************************)

\* SQL NULL / Python None; an optional value is NULL or a one-element tuple.
NULL == <<>>

Some(x) == <<x>>

\* Body applied to the value of an expression: the expression is evaluated
\* once, as an assignment to a local variable is.
With(value, Body(_)) == CHOOSE result \in {Body(v) : v \in {value}} : TRUE

LOCK_LIFETIME == 20

\* Bounds of the model.
MaxNow == 21

MaxRev == 1

\* The digest has this many bytes (8 in the source, which exceeds the
\* integers of the checker).
DigestSize == 2

\* The clock advances by these amounts between two requests.
TickSteps == {LOCK_LIFETIME, LOCK_LIFETIME + 1}

\* Opaque client tokens (clientId).
Clients == {"A", "B"}

\* An identifier is the sequence of its '/'-separated segments:
\* "cmu:Schema/a" is <<"cmu:Schema", "a">>.
IdA == <<"cmu:Schema", "a">>

IdB == <<"cmu:Schema", "b">>

IdC == <<"cmu:Schema", "c">>

\* The form SchemaInstanceCopy gives a copy: cmu:Schema/<uuid>/<name>_copy
IdNew == <<"cmu:Schema", "u1", "a_copy">>

\* A Wikidata node, which is no document identifier.
WdQ == <<"wd:Q1">>

\* s.split("/")[-1]
LastSegment(id) == id[Len(id)]

\* An event of a document: its own @id, and the optional wd_node / wd_label
\* (wd_node NULL: the key is absent).
Event(eid, node, label) == [atId |-> eid, wd_node |-> node, wd_label |-> label]

\* A document (sdf.Document as stored in the data column): "@id", "events",
\* and rev standing for all the remaining content; conforms is the outcome
\* of util.validate_type(sdf.Document, data) on it.
Document(id, events, rev, ok) ==
    [atId |-> id, events |-> events, rev |-> rev, conforms |-> ok]

\* Text in the data column that is no document: text json.loads cannot parse,
\* and text that parses to a JSON value that is no object (a list).
NotJson == [text |-> "{"]

JsonArray == [text |-> "[]"]

Row(id, ts, holder, data, q, note) ==
    [atId |-> id, lock_ts |-> ts, holder_id |-> holder, data |-> data,
     quarantined |-> q, note |-> note]

(***************************************************************************)
(* Exceptions: the kind and the identifier its description names.          *)
(***************************************************************************)
NoExc == [kind |-> "none", names |-> NULL]

Exc(kind, id) == [kind |-> kind, names |-> id]

(***************************************************************************)
(* SQL on the table.                                                       *)
(***************************************************************************)

\* SELECT ... FROM Schema WHERE atId=?
SelectById(tbl, id) == SelectSeq(tbl, LAMBDA r : r.atId = id)

\* SELECT ... FROM Schema WHERE quarantined = 0
SelectNotQuarantined(tbl) == SelectSeq(tbl, LAMBDA r : r.quarantined = 0)

\* The number of rows an UPDATE ... WHERE atId=? matches (cursor.rowcount)
RowCount(tbl, id) == Len(SelectById(tbl, id))

\* get_lock_holder: the holder_id column of the row, None if there is no row
get_lock_holder(tbl, schema_id) ==
    LET rows == SelectById(tbl, schema_id)
    IN  IF rows # <<>> THEN rows[1].holder_id ELSE NULL

\* json.loads(s): [exc, data]
json_loads(data) ==
    IF data = NotJson
    THEN [exc |-> Exc("JSONDecodeError", NULL), data |-> NULL]
    ELSE [exc |-> NoExc, data |-> data]

\* util.validate_type(sdf.Document, data): model(**data) is a TypeError when
\* data is no mapping, and pydantic's error becomes util.ValidationError.
validate_type(data) ==
    IF data = JsonArray
    THEN [exc |-> Exc("TypeError", NULL), data |-> NULL]
    ELSE IF ~data.conforms
    THEN [exc |-> Exc("ValidationError", NULL), data |-> NULL]
    ELSE [exc |-> NoExc, data |-> data]

\* loads_sdf(s) == util.validate_type(sdf.Document, json.loads(s))
loads_sdf(data) ==
    LET parsed == json_loads(data)
    IN  IF parsed.exc # NoExc THEN parsed ELSE validate_type(parsed.data)

\* get_schema: [exc, data]
get_schema(tbl, schema_id, no_validate) ==
    LET rows == SelectById(tbl, schema_id)
    IN  IF rows # <<>>
        THEN IF no_validate
             THEN json_loads(rows[1].data)
             ELSE loads_sdf(rows[1].data)
        ELSE [exc |-> Exc("HTTPNotFound", schema_id), data |-> NULL]

describe_schema(sdf_data) == sdf_data.atId

(***************************************************************************)
(* class Transaction.  Every method takes the table as the transaction     *)
(* sees it and the clock t, and yields [tbl, exc]: the table as the method *)
(* left it and the exception it raised (NoExc: it returned).               *)
(***************************************************************************)

\* Mutant: an acquire keeps the timestamp of a lock that is already stored.
UpdateLock_KeepsTimestamp(tbl, id, ts, holder) ==
    [i \in 1..Len(tbl) |->
        IF tbl[i].atId = id
        THEN [tbl[i] EXCEPT
                 !.lock_ts = IF ts # NULL /\ tbl[i].lock_ts # NULL
                             THEN tbl[i].lock_ts ELSE ts,
                 !.holder_id = holder]
        ELSE tbl[i]]

\* UPDATE Schema SET lock_ts=:lock_ts, holder_id=:holder_id WHERE atId=:atId
UpdateLock(tbl, id, ts, holder) ==
    [i \in 1..Len(tbl) |->
        IF tbl[i].atId = id
        THEN [tbl[i] EXCEPT !.lock_ts = ts, !.holder_id = holder]
        ELSE tbl[i]]

\* Mutant: a lock never expires.
lock_is_valid_NoExpiry(lock_ts, t) == lock_ts # NULL

\* Mutant: a lock that is exactly LOCK_LIFETIME old counts as expired.
lock_is_valid_Strict(lock_ts, t) == lock_ts # NULL /\ t - lock_ts[1] < LOCK_LIFETIME

\* The lease test of set_lock: a lock exists and is at most LOCK_LIFETIME old.
lock_is_valid(lock_ts, t) == lock_ts # NULL /\ t - lock_ts[1] <= LOCK_LIFETIME

\* Mutant: set_lock does not look at who holds the lock.
set_lock_IgnoresHolder(tbl, acquire, schema_id, client_id, t) ==
    LET rows == SelectById(tbl, schema_id)
    IN  IF rows = <<>>
        THEN [tbl |-> tbl, exc |-> Exc("HTTPNotFound", schema_id)]
        ELSE [tbl |-> UpdateLock(tbl, schema_id,
                                 IF acquire THEN Some(t) ELSE NULL,
                                 IF acquire THEN Some(client_id) ELSE NULL),
              exc |-> NoExc]

set_lock(tbl, acquire, schema_id, client_id, t) ==
    LET rows == SelectById(tbl, schema_id)
    IN  IF rows = <<>>
        THEN [tbl |-> tbl, exc |-> Exc("HTTPNotFound", schema_id)]
        ELSE LET holder_id == rows[1].holder_id
                 lock_ts   == rows[1].lock_ts
             IN  IF lock_is_valid(lock_ts, t) /\ holder_id # Some(client_id)
                 THEN [tbl |-> tbl, exc |-> Exc("HTTPConflict", schema_id)]
                 ELSE LET upd == UpdateLock(tbl, schema_id,
                                     IF acquire THEN Some(t) ELSE NULL,
                                     IF acquire THEN Some(client_id) ELSE NULL)
                      IN  IF RowCount(tbl, schema_id) # 1
                          THEN [tbl |-> upd, exc |-> Exc("RuntimeError", NULL)]
                          ELSE [tbl |-> upd, exc |-> NoExc]

\* INSERT INTO Schema (atId, quarantined, data) VALUES (:atId, 0, :data);
\* atId is the PRIMARY KEY: a second row with the same atId is refused.
write_new_schema(tbl, sdf_data) ==
    IF RowCount(tbl, sdf_data.atId) # 0
    THEN [tbl |-> tbl, exc |-> Exc("IntegrityError", sdf_data.atId)]
    ELSE [tbl |-> Append(tbl, Row(sdf_data.atId, NULL, NULL, sdf_data, 0, NULL)),
          exc |-> NoExc]

\* Mutant: atId is no key of the table, the UPDATE is never refused.
UpdateData_NoPrimaryKey(tbl, id, sdf_data) ==
    [tbl |-> [i \in 1..Len(tbl) |->
                 IF tbl[i].atId = id
                 THEN [tbl[i] EXCEPT !.data = sdf_data,
                                     !.atId = sdf_data.atId,
                                     !.quarantined = 0]
                 ELSE tbl[i]],
     exc |-> NoExc]

\* UPDATE Schema SET data=:data, atId=:dataAtId, quarantined=0 WHERE atId=:atId
UpdateData(tbl, id, sdf_data) ==
    IF RowCount(tbl, id) # 0 /\ sdf_data.atId # id /\ RowCount(tbl, sdf_data.atId) # 0
    THEN [tbl |-> tbl, exc |-> Exc("IntegrityError", sdf_data.atId)]
    ELSE [tbl |-> [i \in 1..Len(tbl) |->
                      IF tbl[i].atId = id
                      THEN [tbl[i] EXCEPT !.data = sdf_data,
                                          !.atId = sdf_data.atId,
                                          !.quarantined = 0]
                      ELSE tbl[i]],
          exc |-> NoExc]

\* event.get("wd_node", None) == old_id
RefersTo(event, old_id) == event.wd_node # NULL /\ event.wd_node = old_id

\* The documents of `rows` with an event whose wd_node is old_id, in order.
referring_schemas(rows, old_id) ==
    LET all_schemas == [i \in 1..Len(rows) |-> rows[i].data]
    IN  SelectSeq(all_schemas,
                  LAMBDA s : \E k \in 1..Len(s.events) : RefersTo(s.events[k], old_id))

\* Mutant: the label is the first segment of the identifier.
NewLabel_FirstSegment(new_id) == new_id[1]

\* The label a re-pointed event gets: new_id.split("/")[-1]
NewLabel(new_id) == LastSegment(new_id)

\* The inner loop of _change_referring_schemas over the events of ref_data.
RePoint(ref_data, old_id, new_id) ==
    [ref_data EXCEPT !.events =
        [k \in 1..Len(ref_data.events) |->
            IF RefersTo(ref_data.events[k], old_id)
            THEN [ref_data.events[k] EXCEPT !.wd_node = new_id,
                                            !.wd_label = NewLabel(new_id)]
            ELSE ref_data.events[k]]]

RECURSIVE LockReferring(_, _, _, _, _)

\* Mutant: the Conflict names the last referrer, not the one that failed.
LockReferring_NamesLast(tbl, refs, i, client_id, t) ==
    IF i > Len(refs)
    THEN [tbl |-> tbl, exc |-> NoExc]
    ELSE LET r == set_lock(tbl, TRUE, refs[i].atId, client_id, t)
         IN  IF r.exc.kind = "HTTPConflict"
             THEN [tbl |-> r.tbl, exc |-> Exc("HTTPConflict", refs[Len(refs)].atId)]
             ELSE IF r.exc # NoExc
             THEN r
             ELSE LockReferring(r.tbl, refs, i + 1, client_id, t)

\* The try block of _change_referring_schemas: lock refs[i..] in order; the
\* first HTTPConflict is re-raised with a description naming that referrer.
LockReferring(tbl, refs, i, client_id, t) ==
    IF i > Len(refs)
    THEN [tbl |-> tbl, exc |-> NoExc]
    ELSE LET r == set_lock(tbl, TRUE, refs[i].atId, client_id, t)
         IN  IF r.exc.kind = "HTTPConflict"
             THEN [tbl |-> r.tbl, exc |-> Exc("HTTPConflict", refs[i].atId)]
             ELSE IF r.exc # NoExc
             THEN r
             ELSE LockReferring(r.tbl, refs, i + 1, client_id, t)

RECURSIVE write_schema(_, _, _, _, _)
RECURSIVE WriteReferring(_, _, _, _, _, _, _)

\* The second loop of _change_referring_schemas: re-point and write refs[i..].
WriteReferring(tbl, refs, i, old_id, new_id, client_id, t) ==
    IF i > Len(refs)
    THEN [tbl |-> tbl, exc |-> NoExc]
    ELSE LET r == write_schema(tbl, refs[i].atId,
                               RePoint(refs[i], old_id, new_id), client_id, t)
         IN  IF r.exc # NoExc
             THEN r
             ELSE WriteReferring(r.tbl, refs, i + 1, old_id, new_id, client_id, t)

change_referring_schemas(tbl, old_id, new_id, client_id, t) ==
    IF old_id = new_id
    THEN [tbl |-> tbl, exc |-> NoExc]
    ELSE LET refs   == referring_schemas(SelectNotQuarantined(tbl), old_id)
             locked == LockReferring(tbl, refs, 1, client_id, t)
         IN  IF locked.exc # NoExc
             THEN locked
             ELSE WriteReferring(locked.tbl, refs, 1, old_id, new_id, client_id, t)

\* Mutant: write_schema does not take the lock before it writes.
write_schema_NoLock(tbl, schema_id, sdf_data, client_id, t) ==
    LET changed == change_referring_schemas(tbl, schema_id, sdf_data.atId,
                                            client_id, t)
    IN  IF changed.exc # NoExc
        THEN changed
        ELSE UpdateData(changed.tbl, schema_id, sdf_data)

write_schema(tbl, schema_id, sdf_data, client_id, t) ==
    LET locked == set_lock(tbl, TRUE, schema_id, client_id, t)
    IN  IF locked.exc # NoExc
        THEN locked
        ELSE LET changed == change_referring_schemas(locked.tbl, schema_id,
                                                     sdf_data.atId, client_id, t)
             IN  IF changed.exc # NoExc
                 THEN changed
                 ELSE UpdateData(changed.tbl, schema_id, sdf_data)

\* DELETE FROM Schema WHERE atId=?
DeleteRow(tbl, id) == SelectSeq(tbl, LAMBDA r : r.atId # id)

\* Mutant: delete_schema raises NotFound when no row has the identifier.
delete_schema_NotFound(tbl, schema_id, client_id) ==
    IF RowCount(tbl, schema_id) = 0
    THEN [tbl |-> tbl, exc |-> Exc("HTTPNotFound", schema_id)]
    ELSE IF get_lock_holder(tbl, schema_id) \notin {Some(client_id), NULL}
    THEN [tbl |-> tbl, exc |-> Exc("HTTPConflict", schema_id)]
    ELSE [tbl |-> DeleteRow(tbl, schema_id), exc |-> NoExc]

delete_schema(tbl, schema_id, client_id) ==
    IF get_lock_holder(tbl, schema_id) \notin {Some(client_id), NULL}
    THEN LET got == get_schema(tbl, schema_id, FALSE)
         IN  IF got.exc # NoExc
             THEN [tbl |-> tbl, exc |-> got.exc]
             ELSE [tbl |-> tbl, exc |-> Exc("HTTPConflict", describe_schema(got.data))]
    ELSE [tbl |-> DeleteRow(tbl, schema_id), exc |-> NoExc]

\* Mutant: what the body did before it raised stays in the table.
do_transaction_NoRollback(tbl, result) == result.tbl

\* do_transaction: "with con" commits what the body did when it returns and
\* rolls everything back when it raises.
do_transaction(tbl, result) == IF result.exc = NoExc THEN result.tbl ELSE tbl

\* UPDATE Schema SET quarantined=1, note=:note WHERE atId=:atId
QuarantineRow(tbl, id, note) ==
    [i \in 1..Len(tbl) |->
        IF tbl[i].atId = id
        THEN [tbl[i] EXCEPT !.quarantined = 1, !.note = Some(note)]
        ELSE tbl[i]]

RECURSIVE ValidateRows(_, _, _)

\* The loop of _validate_schemas over the rows it selected, from rows[i] on:
\* a row that fails validation or is no JSON is quarantined with the reason;
\* any other exception escapes.
ValidateRows(tbl, rows, i) ==
    IF i > Len(rows)
    THEN [tbl |-> tbl, exc |-> NoExc]
    ELSE LET verified == loads_sdf(rows[i].data)
         IN  IF verified.exc.kind = "ValidationError"
             THEN ValidateRows(QuarantineRow(tbl, rows[i].atId, "Not Valid SDF"),
                               rows, i + 1)
             ELSE IF verified.exc.kind = "JSONDecodeError"
             THEN ValidateRows(QuarantineRow(tbl, rows[i].atId, "Not valid JSON"),
                               rows, i + 1)
             ELSE IF verified.exc # NoExc
             THEN [tbl |-> tbl, exc |-> verified.exc]
             ELSE ValidateRows(tbl, rows, i + 1)

\* _validate_schemas: one transaction over the rows with quarantined=0.
validate_schemas(tbl) ==
    do_transaction(tbl, ValidateRows(tbl, SelectNotQuarantined(tbl), 1))

(***************************************************************************)
(* The handlers of resources.py.  A request is a record with op, id (the   *)
(* schema_id of the URL) and client, and for a PUT of a schema the body's  *)
(* sdf and the overwrite flag.  A handler yields [tbl, status, names]: the *)
(* committed table, the HTTP status or the exception that escaped, and the *)
(* identifier the error description names.                                 *)
(***************************************************************************)
Done(tbl, status) == [tbl |-> tbl, status |-> status, names |-> NULL]

Raised(tbl, exc) == [tbl |-> tbl, status |-> exc.kind, names |-> exc.names]

\* A handler whose body is one transaction that answers `status`.
InTransaction(tbl, result, status) ==
    IF result.exc = NoExc
    THEN Done(do_transaction(tbl, result), status)
    ELSE Raised(do_transaction(tbl, result), result.exc)

SchemaLock_on_put(tbl, r, t) ==
    InTransaction(tbl, set_lock(tbl, TRUE, r.id, r.client, t), "201")

\* Mutant: the release handler passes acquire=True.
SchemaLock_on_delete_Acquires(tbl, r, t) ==
    InTransaction(tbl, set_lock(tbl, TRUE, r.id, r.client, t), "200")

SchemaLock_on_delete(tbl, r, t) ==
    InTransaction(tbl, set_lock(tbl, FALSE, r.id, r.client, t), "200")

\* create_blank_schema(name): the @id is cmu:Schema/<name>, the collections
\* are empty.
create_blank_schema(name) == Document(<<"cmu:Schema", name>>, <<>>, 0, TRUE)

Schemas_on_post(tbl, r) ==
    InTransaction(tbl, write_new_schema(tbl, create_blank_schema(r.name)), "201")

\* init_db: the tables exist; the validation pass runs and init_db raises
\* what the pass raises.
init_db(tbl) ==
    LET pass == ValidateRows(tbl, SelectNotQuarantined(tbl), 1)
    IN  IF pass.exc = NoExc
        THEN Done(validate_schemas(tbl), "none")
        ELSE Raised(validate_schemas(tbl), pass.exc)

SchemaInstance_on_delete(tbl, r) ==
    InTransaction(tbl, delete_schema(tbl, r.id, r.client), "200")

\* Mutant: a body that fails validation is written all the same.
SchemaInstance_on_put_NoValidation(tbl, r, t) ==
    IF validate_type(r.sdf).exc.kind \notin {"none", "ValidationError"}
    THEN Raised(tbl, validate_type(r.sdf).exc)
    ELSE LET got == get_schema(tbl, r.id, FALSE)
             already_exists == got.exc.kind # "HTTPNotFound"
         IN  IF got.exc.kind \notin {"none", "HTTPNotFound"}
             THEN Raised(tbl, got.exc)
             ELSE IF already_exists /\ ~r.overwrite
             THEN Raised(tbl, Exc("HTTPConflict", describe_schema(r.sdf)))
             ELSE IF already_exists
             THEN InTransaction(tbl, write_schema(tbl, r.id, r.sdf, r.client, t), "200")
             ELSE InTransaction(tbl, write_new_schema(tbl, r.sdf), "201")

SchemaInstance_on_put(tbl, r, t) ==
    IF validate_type(r.sdf).exc.kind = "ValidationError"
    THEN Raised(tbl, Exc("HTTPBadRequest", NULL))
    ELSE IF validate_type(r.sdf).exc # NoExc
    THEN Raised(tbl, validate_type(r.sdf).exc)
    ELSE LET got == get_schema(tbl, r.id, FALSE)
             already_exists == got.exc.kind # "HTTPNotFound"
         IN  IF got.exc.kind \notin {"none", "HTTPNotFound"}
             THEN Raised(tbl, got.exc)
             ELSE IF already_exists /\ ~r.overwrite
             THEN Raised(tbl, Exc("HTTPConflict", describe_schema(r.sdf)))
             ELSE IF already_exists
             THEN InTransaction(tbl, write_schema(tbl, r.id, r.sdf, r.client, t), "200")
             ELSE InTransaction(tbl, write_new_schema(tbl, r.sdf), "201")

\* The document with privateData.eratosthenesTags set to tags.  The private
\* metadata of a document is free-form (sdf.Document is generated, and is
\* described by the specification only), so the document conforms as it did
\* before; privateData is part of the content rev stands for.
WithTags(sdf_data, tags) == [sdf_data EXCEPT !.rev = tags]

\* SchemaTags.on_patch: the stored document is read and validated, the body
\* must hold "tags" and "clientId", and the document is written back with
\* privateData.eratosthenesTags replaced (privateData is part of the content
\* rev stands for).
SchemaTags_on_patch(tbl, r, t) ==
    LET got == get_schema(tbl, r.id, FALSE)
    IN  IF got.exc # NoExc
        THEN Raised(tbl, got.exc)
        ELSE IF ~r.has_params
        THEN Raised(tbl, Exc("HTTPBadGateway", NULL))
        ELSE InTransaction(tbl,
                 write_schema(tbl, r.id, WithTags(got.data, r.tags),
                              r.client, t),
                 "200")

\* SchemaInstanceCopy.on_post: the stored document is read and validated
\* and written as a new document under cmu:Schema/<uuid>/<name>_copy, uuid
\* being what uuid.uuid4() gave.
SchemaInstanceCopy_on_post(tbl, r) ==
    LET got == get_schema(tbl, r.id, FALSE)
    IN  IF got.exc # NoExc
        THEN Raised(tbl, got.exc)
        ELSE InTransaction(tbl,
                 write_new_schema(tbl,
                     [got.data EXCEPT !.atId =
                         <<"cmu:Schema", r.uuid,
                           LastSegment(got.data.atId) \o "_copy">>]),
                 "201")

Handle(tbl, r, t) ==
    CASE r.op = "lock_put"      -> SchemaLock_on_put(tbl, r, t)
      [] r.op = "lock_delete"   -> SchemaLock_on_delete(tbl, r, t)
      [] r.op = "schema_delete" -> SchemaInstance_on_delete(tbl, r)
      [] r.op = "schema_put"    -> SchemaInstance_on_put(tbl, r, t)
      [] r.op = "schemas_post"  -> Schemas_on_post(tbl, r)
      [] r.op = "tags_patch"    -> SchemaTags_on_patch(tbl, r, t)
      [] r.op = "schema_copy"   -> SchemaInstanceCopy_on_post(tbl, r)

(***************************************************************************)
(* The requests the clients send.                                          *)
(***************************************************************************)
LockRequest(op, id, c) == [op |-> op, id |-> id, client |-> c]

PutRequest(id, c, sdf, overwrite) ==
    [op |-> "schema_put", id |-> id, client |-> c, sdf |-> sdf,
     overwrite |-> overwrite]

\* The lease columns of the row of id, NULL when there is no such row.
LeaseOf(tbl, id) ==
    LET rows == SelectById(tbl, id)
    IN  IF rows = <<>> THEN NULL
        ELSE [holder_id |-> rows[1].holder_id, lock_ts |-> rows[1].lock_ts]

\* A lease is valid while now - acquired_at <= LOCK_LIFETIME (a lock older
\* than LOCK_LIFETIME stays recorded and may be taken over).
ValidAt(lease, t) ==
    /\ lease # NULL
    /\ lease.lock_ts # NULL
    /\ t - lease.lock_ts[1] <= LOCK_LIFETIME

\* The lease of client c taken at time t, and no lease.
Lease(c, t) == [holder_id |-> Some(c), lock_ts |-> Some(t)]

NoLease == [holder_id |-> NULL, lock_ts |-> NULL]

\* A valid lease of a client other than c.
HeldByOther(lease, c, t) == ValidAt(lease, t) /\ lease.holder_id # Some(c)

\* The events a client edits: those of the stored document it loaded.
EventsOf(tbl, id) ==
    LET rows == SelectById(tbl, id)
    IN  IF rows = <<>> THEN <<>> ELSE rows[1].data.events

\* The bodies a client PUTs to id: the document it loaded with its content
\* edited (rev) and its @id kept or changed to an identifier of news.
PutRequests(tbl, ids, news, c) ==
    {PutRequest(id, c, Document(new, EventsOf(tbl, id), rev, TRUE), TRUE) :
        id \in ids, new \in news, rev \in 0..MaxRev}

LockRequests(ops, ids, c) == {LockRequest(op, id, c) : op \in ops, id \in ids}

(***************************************************************************)
(* The state machine.                                                      *)
(***************************************************************************)
\* req[c] of a client with no request received.
Idle == [phase |-> "idle"]

NoTxn ==
    [req |-> [op |-> "none"], status |-> "none", names |-> NULL, before |-> NULL]

\* What `last` records of a request r served on table tbl with outcome out:
\* before is the lease r.id had when the request arrived.
Served(r, out, tbl) ==
    [req |-> r, status |-> out.status, names |-> out.names,
     before |-> LeaseOf(tbl, r.id)]

DocA == Document(IdA, <<Event("e1", WdQ, "q1")>>, 0, TRUE)

DocB == Document(IdB, <<Event("e1", IdA, "a"), Event("e2", WdQ, "q1")>>, 0, TRUE)

DocC == Document(IdC, <<Event("e1", NULL, ""), Event("e2", IdA, "a")>>, 0, TRUE)

\* A row as write_new_schema stores it.
Stored(doc) == Row(doc.atId, NULL, NULL, doc, 0, NULL)

\* A row the start-up validation pass has quarantined.
Quarantined(doc) ==
    Row(doc.atId, NULL, NULL, [doc EXCEPT !.conforms = FALSE], 1, Some("Not Valid SDF"))

\* The lease scenario: one stored document, and the requests on it and on
\* an identifier that is not stored.
LeaseIds == {IdA, IdNew}

LeaseRequests(tbl, c) ==
    LockRequests({"lock_put", "lock_delete", "schema_delete"}, LeaseIds, c)
    \cup PutRequests(tbl, LeaseIds, LeaseIds, c)

InitLease ==
    /\ schema = <<Stored(DocA)>>
    /\ now = 0
    /\ req = [c \in Clients |-> Idle]
    /\ last = NoTxn
    /\ wd_node = {}
    /\ all_ids = {}

\* Mutant: a sweeper clears the leases that have expired when the clock
\* advances.
Tick_Sweeps ==
    /\ \E d \in TickSteps :
          /\ now + d <= MaxNow
          /\ now' = now + d
          /\ schema' = [i \in 1..Len(schema) |->
                           IF lock_is_valid(schema[i].lock_ts, now + d)
                           THEN schema[i]
                           ELSE [schema[i] EXCEPT !.lock_ts = NULL,
                                                  !.holder_id = NULL]]
    /\ last' = NoTxn
    /\ UNCHANGED <<req, wd_node, all_ids>>

\* The clock advances.
Tick ==
    /\ \E d \in TickSteps : now + d <= MaxNow /\ now' = now + d
    /\ last' = NoTxn
    /\ UNCHANGED <<schema, req, wd_node, all_ids>>

\* A request is received and served with no other request in between.
Direct(c, r) ==
    /\ req[c].phase = "idle"
    /\ LET out == Handle(schema, r, now)
       IN  /\ schema' = out.tbl
           /\ last' = Served(r, out, schema)
    /\ UNCHANGED <<now, req, wd_node, all_ids>>

Next ==
    \/ Tick
    \/ \E c \in Clients : \E r \in LeaseRequests(schema, c) : Direct(c, r)

Spec == InitLease /\ [][Next]_vars

(***************************************************************************)
(* The rename scenario: document a is referred to by b and c (c possibly   *)
(* quarantined); the clients lock documents and write a, keeping or        *)
(* changing its identifier.                                                *)
(***************************************************************************)
RenameLockIds == {IdB, IdC}

RenamePutIds == {IdA, IdNew}

\* The identifiers of ids that are stored: a client writes a document it loaded.
StoredIds(tbl, ids) == {id \in ids : SelectById(tbl, id) # <<>>}

RenameNewIds == {IdA, IdNew, IdB}

RenameRequests(tbl, c) ==
    LockRequests({"lock_put"}, RenameLockIds, c)
    \cup PutRequests(tbl, StoredIds(tbl, RenamePutIds), RenameNewIds, c)

InitRename ==
    /\ schema \in {<<Stored(DocA), Stored(DocB), Stored(DocC)>>,
                   <<Stored(DocC), Stored(DocB), Stored(DocA)>>,
                   <<Stored(DocA), Stored(DocB), Quarantined(DocC)>>}
    /\ now = 0
    /\ req = [c \in Clients |-> Idle]
    /\ last = NoTxn
    /\ wd_node = {}
    /\ all_ids = {}

NextRename ==
    \/ Tick
    \/ \E c \in Clients : \E r \in RenameRequests(schema, c) : Direct(c, r)

SpecRename == InitRename /\ [][NextRename]_vars

(***************************************************************************)
(* Concurrent lock requests.  A request is received (its handler waits at  *)
(* BEGIN IMMEDIATE, which admits one writer at a time) and later served:   *)
(* the transaction of the handler runs alone and commits or rolls back.    *)
(* req[c] keeps the outcome until c sends its next request.                *)
(***************************************************************************)
ConcurrentIds == {IdA}

Waiting(r) ==
    [r |-> r, phase |-> "waiting", status |-> "none", at |-> 0,
     free |-> FALSE, raced |-> FALSE]

\* free: the document had no valid lease when the request was served;
\* raced: another client's acquire of the same document was waiting then.
Answered(q, out, tbl, t, waiting) ==
    [r |-> q.r, phase |-> "done", status |-> out.status, at |-> t,
     free |-> /\ LeaseOf(tbl, q.r.id) # NULL
              /\ ~ValidAt(LeaseOf(tbl, q.r.id), t),
     raced |-> \E c \in waiting : c # q.r.client]

\* The clients with a waiting acquire of id.
WaitingFor(id) ==
    {c \in Clients : /\ req[c].phase = "waiting"
                     /\ req[c].r.op = "lock_put"
                     /\ req[c].r.id = id}

Receive(c, r) ==
    /\ req[c].phase \in {"idle", "done"}
    /\ req' = [req EXCEPT ![c] = Waiting(r)]
    /\ last' = NoTxn
    /\ UNCHANGED <<schema, now, wd_node, all_ids>>

Serve(c) ==
    /\ req[c].phase = "waiting"
    /\ LET out == Handle(schema, req[c].r, now)
       IN  /\ schema' = out.tbl
           /\ last' = Served(req[c].r, out, schema)
           /\ req' = [req EXCEPT ![c] =
                         Answered(req[c], out, schema, now, WaitingFor(req[c].r.id))]
    /\ UNCHANGED <<now, wd_node, all_ids>>

InitConcurrent ==
    /\ schema = <<Stored(DocA)>>
    /\ now = 0
    /\ req = [c \in Clients |-> Idle]
    /\ last = NoTxn
    /\ wd_node = {}
    /\ all_ids = {}

NextConcurrent ==
    \/ Tick
    \/ \E c \in Clients :
         \E r \in LockRequests({"lock_put", "lock_delete"}, ConcurrentIds, c) :
            Receive(c, r)
    \/ \E c \in Clients : Serve(c)

SpecConcurrent == InitConcurrent /\ [][NextConcurrent]_vars

(***************************************************************************)
(* The store scenario: besides a conforming document the table holds rows  *)
(* whose data was written into the store directly (a document that fails   *)
(* validation, text that is no JSON, JSON that is no object).  The server  *)
(* starts (init_db), documents are read, created blank, written with and    *)
(* without the overwrite flag and with bodies that pass or fail            *)
(* validation, locked and deleted.  No write changes an identifier.         *)
(***************************************************************************)

\* A row written into the store directly.
Raw(id, data) == Row(id, NULL, NULL, data, 0, NULL)

BadB == [DocB EXCEPT !.conforms = FALSE]

StoreTables ==
    {<<Stored(DocA), Raw(IdB, BadB), Raw(IdC, NotJson)>>,
     <<Stored(DocA), Raw(IdB, BadB), Raw(IdC, JsonArray)>>}

StoreLockIds == {IdA, IdB}

StorePutIds == {IdA, IdB}

StoreDeleteIds == {IdA, IdNew}

StoreReadIds == {IdA, IdB, IdC, IdNew}

StoreNames == {"a"}

\* The bodies PUT to id: a document with that @id that passes or fails
\* validation, and JSON that is no object.
StoreBodies(id) ==
    {Document(id, <<>>, MaxRev, ok) : ok \in BOOLEAN} \cup {JsonArray}

BlankRequest(name, c) ==
    [op |-> "schemas_post", id |-> <<"cmu:Schema", name>>, name |-> name,
     client |-> c]

\* Every client locks; the client that edits also deletes, writes and
\* creates.
StoreEditors == {"A"}

StoreRequests(c) ==
    IF c \notin StoreEditors
    THEN LockRequests({"lock_put"}, StoreLockIds, c)
    ELSE
    LockRequests({"lock_put"}, StoreLockIds, c)
    \cup LockRequests({"schema_delete"}, StoreDeleteIds, c)
    \cup UNION {{PutRequest(id, c, body, ow) :
                     body \in StoreBodies(id), ow \in BOOLEAN} :
                 id \in StorePutIds}
    \cup {BlankRequest(name, c) : name \in StoreNames}

InitStore ==
    /\ schema \in StoreTables
    /\ now = 0
    /\ req = [c \in Clients |-> Idle]
    /\ last = NoTxn
    /\ wd_node = {}
    /\ all_ids = {}

\* The server starts: init_db runs the validation pass.
Startup ==
    /\ LET out == init_db(schema)
       IN  /\ schema' = out.tbl
           /\ last' = [req |-> [op |-> "init_db"], status |-> out.status,
                       names |-> out.names, before |-> NULL]
    /\ UNCHANGED <<now, req, wd_node, all_ids>>

\* get_schema(id, no_validate) is called; `returned` is what it returns.
Read(id, no_validate) ==
    /\ LET got == get_schema(schema, id, no_validate)
       IN  last' = [req |-> [op |-> "get_schema", id |-> id,
                            no_validate |-> no_validate],
                   status |-> got.exc.kind, names |-> got.exc.names,
                   before |-> LeaseOf(schema, id),
                   returned |-> IF got.exc = NoExc THEN Some(got.data) ELSE NULL]
    /\ UNCHANGED <<schema, now, req, wd_node, all_ids>>

NextStore ==
    \/ Startup
    \/ \E id \in StoreReadIds : \E no_validate \in BOOLEAN : Read(id, no_validate)
    \/ \E c \in Clients : \E r \in StoreRequests(c) : Direct(c, r)

SpecStore == InitStore /\ [][NextStore]_vars

(***************************************************************************)
(* The protection scenario: document a is stored and b refers to it; one   *)
(* client takes the lease on b and the other sends the requests that write *)
(* the Schema table.                                                       *)
(***************************************************************************)
ProtectIds == {IdA, IdB, IdNew}

TagsRequest(id, c, tags, has_params) ==
    [op |-> "tags_patch", id |-> id, client |-> c, tags |-> tags,
     has_params |-> has_params]

\* The client that holds the leases acquires them on a and b; the other sends
\* every request that could touch a leased document: on b itself, a rename
\* of a (which b refers to), and a create or a rename onto the identifier of b.
Holder == "A"

ProtectRequests(tbl, c) ==
    IF c = Holder
    THEN LockRequests({"lock_put"}, {IdA, IdB}, c)
    ELSE LockRequests({"lock_put", "lock_delete", "schema_delete"}, {IdB}, c)
         \cup {PutRequest(w[1], c, Document(w[2], EventsOf(tbl, w[1]), 1, TRUE), TRUE) :
                   w \in {<<IdB, IdB>>, <<IdB, IdNew>>, <<IdA, IdNew>>,
                          <<IdA, IdB>>, <<IdNew, IdB>>}}
         \cup {TagsRequest(IdB, c, 1, p) : p \in BOOLEAN}
         \cup {BlankRequest(LastSegment(IdB), c)}

InitProtect ==
    /\ schema = <<Stored(DocA), Stored(DocB)>>
    /\ now = 0
    /\ req = [c \in Clients |-> Idle]
    /\ last = NoTxn
    /\ wd_node = {}
    /\ all_ids = {}

NextProtect ==
    \/ Tick
    \/ \E c \in Clients : \E r \in ProtectRequests(schema, c) : Direct(c, r)

SpecProtect == InitProtect /\ [][NextProtect]_vars

(***************************************************************************)
(* Requests in flight together.  SchemaInstance.on_put and                 *)
(* SchemaTags.on_patch call db.get_schema before they open their           *)
(* transaction: the read runs on its own, and the transaction (BEGIN       *)
(* IMMEDIATE) runs later, alone, with what the read returned.  req[w] is   *)
(* the request worker w is serving, each worker serving one request; the   *)
(* clientId of a request is in its body and is independent of the worker.  *)
(***************************************************************************)

\* The part of SchemaInstance.on_put before the transaction: [exc,
\* already_exists].
on_put_read(tbl, r) ==
    IF validate_type(r.sdf).exc.kind = "ValidationError"
    THEN [exc |-> Exc("HTTPBadRequest", NULL), already_exists |-> FALSE]
    ELSE IF validate_type(r.sdf).exc # NoExc
    THEN [exc |-> validate_type(r.sdf).exc, already_exists |-> FALSE]
    ELSE LET got == get_schema(tbl, r.id, FALSE)
             already_exists == got.exc.kind # "HTTPNotFound"
         IN  IF got.exc.kind \notin {"none", "HTTPNotFound"}
             THEN [exc |-> got.exc, already_exists |-> already_exists]
             ELSE IF already_exists /\ ~r.overwrite
             THEN [exc |-> Exc("HTTPConflict", describe_schema(r.sdf)),
                   already_exists |-> already_exists]
             ELSE [exc |-> NoExc, already_exists |-> already_exists]

\* The transaction of SchemaInstance.on_put.
on_put_write(tbl, r, already_exists, t) ==
    IF already_exists
    THEN InTransaction(tbl, write_schema(tbl, r.id, r.sdf, r.client, t), "200")
    ELSE InTransaction(tbl, write_new_schema(tbl, r.sdf), "201")

\* The part of SchemaTags.on_patch before the transaction: [exc, data],
\* data being the document get_schema returned.
on_patch_read(tbl, r) ==
    LET got == get_schema(tbl, r.id, FALSE)
    IN  IF got.exc # NoExc
        THEN got
        ELSE IF ~r.has_params
        THEN [exc |-> Exc("HTTPBadGateway", NULL), data |-> NULL]
        ELSE got

\* The transaction of SchemaTags.on_patch: the document read earlier is
\* written with its tags replaced.
on_patch_write(tbl, r, sdf_data, t) ==
    InTransaction(tbl,
        write_schema(tbl, r.id, WithTags(sdf_data, r.tags), r.client, t),
        "200")

\* req[w] of a request whose read has run; seen is what the read returned,
\* overlap tells whether the other worker's request was in flight at some
\* time while this one was.
InFlight(r, seen, overlap) ==
    [r |-> r, phase |-> "read", status |-> "none", seen |-> seen,
     overlap |-> overlap]

Finished(q, status) ==
    [r |-> q.r, phase |-> "done", status |-> status, seen |-> q.seen,
     overlap |-> q.overlap]

\* The document created by the racing writes, and the edit of document a.
DocNew == Document(IdNew, <<>>, 0, TRUE)

EditedA == Document(IdA, <<>>, 0, TRUE)

RaceRequests ==
    UNION {{PutRequest(IdNew, c, DocNew, ow) : ow \in BOOLEAN}
           \cup {PutRequest(IdA, c, EditedA, TRUE)}
           \cup {TagsRequest(IdA, c, MaxRev, TRUE)} : c \in Clients}

Other(w) == CHOOSE v \in Clients : v # w

\* Worker w receives r and runs the handler up to its transaction; a
\* handler that raises before the transaction is finished at once.
Begin(w, r) ==
    /\ req[w].phase = "idle"
    /\ LET reading == req[Other(w)].phase = "read"
           got     == IF r.op = "schema_put"
                      THEN on_put_read(schema, r)
                      ELSE on_patch_read(schema, r)
           seen    == IF r.op = "schema_put"
                      THEN [already_exists |-> got.already_exists]
                      ELSE [sdf_data |-> got.data]
           mine    == IF got.exc = NoExc
                      THEN InFlight(r, seen, reading)
                      ELSE Finished(InFlight(r, seen, reading), got.exc.kind)
       IN  /\ req' = [v \in Clients |->
                         IF v = w THEN mine
                         ELSE IF reading THEN [req[v] EXCEPT !.overlap = TRUE]
                         ELSE req[v]]
           /\ last' = IF got.exc = NoExc THEN NoTxn
                      ELSE Served(r, Raised(schema, got.exc), schema)
    /\ UNCHANGED <<schema, now, wd_node, all_ids>>

\* The transaction of the request of worker w runs and the request is
\* answered.
Commit(w) ==
    /\ req[w].phase = "read"
    /\ LET r   == req[w].r
           out == IF r.op = "schema_put"
                  THEN on_put_write(schema, r, req[w].seen.already_exists, now)
                  ELSE on_patch_write(schema, r, req[w].seen.sdf_data, now)
       IN  /\ schema' = out.tbl
           /\ last' = Served(r, out, schema)
           /\ req' = [req EXCEPT ![w] = Finished(req[w], out.status)]
    /\ UNCHANGED <<now, wd_node, all_ids>>

InitRace ==
    /\ schema = <<Stored(DocA)>>
    /\ now = 0
    /\ req = [c \in Clients |-> Idle]
    /\ last = NoTxn
    /\ wd_node = {}
    /\ all_ids = {}

NextRace ==
    \/ Tick
    \/ \E w \in Clients : \E r \in RaceRequests : Begin(w, r)
    \/ \E w \in Clients : Commit(w)

SpecRace == InitRace /\ [][NextRace]_vars

(***************************************************************************)
(* The key scenario: documents a and b are stored; the editing client      *)
(* creates (blank, and by a write to an identifier that is not stored),    *)
(* copies, writes, renames, deletes and locks, onto identifiers that are   *)
(* stored and onto ones that are not, while the other client locks.        *)
(***************************************************************************)
CopyRequest(id, c, uuid) ==
    [op |-> "schema_copy", id |-> id, client |-> c, uuid |-> uuid]

\* What uuid.uuid4() may give.
Uuids == {"u1"}

Editor == "A"

KeyRequests(tbl, c) ==
    IF c # Editor
    THEN LockRequests({"lock_put"}, {IdA}, c)
    ELSE LockRequests({"lock_put", "lock_delete"}, {IdA}, c)
         \cup LockRequests({"schema_delete"}, {IdA, IdNew}, c)
         \cup {PutRequest(w[1], c, Document(w[2], EventsOf(tbl, w[1]), MaxRev, TRUE),
                          TRUE) :
                   w \in {<<IdA, IdA>>, <<IdA, IdNew>>, <<IdA, IdB>>,
                          <<IdNew, IdNew>>, <<IdNew, IdB>>}}
         \cup {BlankRequest(LastSegment(IdA), c)}
         \cup {CopyRequest(id, c, u) : id \in {IdA, IdB}, u \in Uuids}

InitKeys ==
    /\ schema = <<Stored(DocA), Stored(DocB)>>
    /\ now = 0
    /\ req = [c \in Clients |-> Idle]
    /\ last = NoTxn
    /\ wd_node = {}
    /\ all_ids = {}

NextKeys ==
    \/ Tick
    \/ \E c \in Clients : \E r \in KeyRequests(schema, c) : Direct(c, r)

SpecKeys == InitKeys /\ [][NextKeys]_vars

(***************************************************************************)
(* The serving scenario: the store holds a conforming document and rows    *)
(* written into it directly; the server starts with init_db and serves     *)
(* requests once init_db has returned.  The editing client creates,        *)
(* copies, writes (bodies that pass and that fail validation), updates     *)
(* tags, renames, deletes, locks and releases.                             *)
(***************************************************************************)

\* req[c] while the server is not up.
Down == [phase |-> "down"]

ServeRequests(tbl, c) ==
    IF c # Editor
    THEN {}
    ELSE LockRequests({"lock_put", "lock_delete"}, {IdA}, c)
         \cup LockRequests({"schema_delete"}, {IdB}, c)
         \cup {PutRequest(IdB, c, body, TRUE) : body \in StoreBodies(IdB)}
         \cup {PutRequest(IdC, c, Document(IdC, <<>>, MaxRev, TRUE), TRUE)}
         \cup {PutRequest(IdA, c, Document(IdNew, EventsOf(tbl, IdA), MaxRev, ok),
                          TRUE) : ok \in BOOLEAN}
         \cup {TagsRequest(id, c, MaxRev, TRUE) : id \in {IdA, IdB, IdNew}}
         \cup {CopyRequest(id, c, u) : id \in {IdA, IdB}, u \in Uuids}
         \cup {BlankRequest(LastSegment(IdC), c)}

InitServe ==
    /\ schema \in StoreTables \cup {<<Stored(DocA), Raw(IdB, BadB)>>}
    /\ now = 0
    /\ req = [c \in Clients |-> Down]
    /\ last = NoTxn
    /\ wd_node = {}
    /\ all_ids = {}

\* The server starts: init_db runs the validation pass, and requests are
\* served when it has returned.
Start ==
    /\ \A c \in Clients : req[c].phase = "down"
    /\ LET out == init_db(schema)
       IN  /\ schema' = out.tbl
           /\ last' = [req |-> [op |-> "init_db"], status |-> out.status,
                       names |-> out.names, before |-> NULL]
           /\ req' = IF out.status = "none"
                      THEN [c \in Clients |-> Idle]
                      ELSE req
    /\ UNCHANGED <<now, wd_node, all_ids>>

NextServe ==
    \/ Start
    \/ \E c \in Clients : \E r \in ServeRequests(schema, c) : Direct(c, r)

SpecServe == InitServe /\ [][NextServe]_vars

(***************************************************************************)
(* Composition (package_schemas).  The documents composed carry, besides   *)
(* "@id", rev and conforms, their entities and events in full:             *)
(*   entity       [atId, name, isSchemaArg, tag]                           *)
(*   event        [atId, name, wd_node, wd_label, participants, children,  *)
(*                 tag]                                                    *)
(*   participant  [atId, roleName, entity]                                 *)
(* children is the sequence of the "child" identifiers, and tag is         *)
(* privateData.originalDocumentId (NULL: not set).  The documents have no  *)
(* relations, instances or provenanceData.  Names and labels are strings   *)
(* and identifiers are sequences, so only the fields that hold identifiers *)
(* can equal the target of sub_id.                                         *)
(***************************************************************************)
SdfEntity(id, name, isArg) ==
    [atId |-> id, name |-> name, isSchemaArg |-> isArg, tag |-> NULL]

SdfParticipant(id, roleName, entity) ==
    [atId |-> id, roleName |-> roleName, entity |-> entity]

SdfEvent(id, name, node, participants, children) ==
    [atId |-> id, name |-> name, wd_node |-> node, wd_label |-> "",
     participants |-> participants, children |-> children, tag |-> NULL]

SdfDocument(id, entities, events, ok) ==
    [atId |-> id, entities |-> entities, events |-> events, rev |-> 0,
     conforms |-> ok]

\* The identifiers uuid.uuid4() returns, in the order of the calls: fresh and
\* pairwise different.
UuidNames == <<"u01", "u02", "u03", "u04", "u05", "u06", "u07", "u08", "u09",
               "u10", "u11", "u12", "u13", "u14", "u15", "u16", "u17", "u18",
               "u19", "u20", "u21", "u22", "u23", "u24">>

Uuid(n) == <<UuidNames[n]>>

\* f"{counter:05d}"
CounterNames == <<"00000", "00001", "00002", "00003", "00004", "00005",
                  "00006", "00007", "00008", "00009", "00010", "00011",
                  "00012", "00013", "00014", "00015">>

\* One assignment of sub_id: _obj[k] = replacement when _obj[k] == target.
Sub(v, target, replacement) == IF v = target THEN replacement ELSE v

SubParticipant(p, target, replacement) ==
    [p EXCEPT !.entity = Sub(p.entity, target, replacement)]

SubEvent(e, target, replacement) ==
    [e EXCEPT
       !.wd_node = Sub(e.wd_node, target, replacement),
       !.tag = Sub(e.tag, target, replacement),
       !.children = [k \in 1..Len(e.children) |->
                        Sub(e.children[k], target, replacement)],
       !.participants = [k \in 1..Len(e.participants) |->
                            SubParticipant(e.participants[k], target, replacement)]]

SubEntity(e, target, replacement) ==
    [e EXCEPT !.tag = Sub(e.tag, target, replacement)]

\* A relation: its "@id", its wd_label and the identifiers of the elements
\* it relates.
SdfRelation(id, label, subject, object) ==
    [atId |-> id, wd_label |-> label, relationSubject |-> subject,
     relationObject |-> object]

SubRelation(r, target, replacement) ==
    [r EXCEPT !.relationSubject = Sub(r.relationSubject, target, replacement),
              !.relationObject = Sub(r.relationObject, target, replacement)]

\* lib.get("relations", []): a document may have no "relations" key.
RelationsOf(doc) == IF "relations" \in DOMAIN doc THEN doc.relations ELSE <<>>

\* util.sub_id on a document: every field that is not "@id" and equals
\* target becomes replacement, at every depth.
sub_id(doc, target, replacement) ==
    LET subbed == [doc EXCEPT
                     !.entities = [k \in 1..Len(doc.entities) |->
                                      SubEntity(doc.entities[k], target, replacement)],
                     !.events = [k \in 1..Len(doc.events) |->
                                    SubEvent(doc.events[k], target, replacement)]]
    IN  IF "relations" \in DOMAIN doc
        THEN [subbed EXCEPT
                !.relations = [k \in 1..Len(doc.relations) |->
                                  SubRelation(doc.relations[k], target, replacement)]]
        ELSE subbed

\* name.replace(" ", "_") on the names of the model, of which "a b" has a
\* space.
Underscored(name) == IF name = "a b" THEN "a_b" ELSE name

\* Mutant: the counter is left out of the @id.
NewAtId_NoCounter(ke_type, name, counter, use_uuids, fresh) ==
    IF use_uuids
    THEN Uuid(fresh + counter + 1)
    ELSE <<ke_type, CounterNames[1], name>>

\* The @id fix_for_ke_type gives the instance numbered counter (from 0); with
\* use_uuids it is the next uuid, `fresh` of them having been given before.
NewAtId(ke_type, name, counter, use_uuids, fresh) ==
    IF use_uuids
    THEN Uuid(fresh + counter + 1)
    ELSE <<ke_type, CounterNames[counter + 1], name>>

RECURSIVE FixEntities(_, _, _, _, _)
\* fix_for_ke_type("Entities", ...) from entity k on.
FixEntities(lib, k, counter, use_uuids, fresh) ==
    IF k > Len(lib.entities)
    THEN [lib |-> lib, counter |-> counter]
    ELSE LET x     == lib.entities[k]
             newId == NewAtId("cmu:Entities", Underscored(x.name), counter,
                              use_uuids, fresh)
             lib2  == [lib EXCEPT !.entities[k].atId = newId]
         IN  With(sub_id(lib2, x.atId, newId),
                  LAMBDA next : FixEntities(next, k + 1, counter + 1,
                                            use_uuids, fresh))

RECURSIVE FixEvents(_, _, _, _, _)
\* fix_for_ke_type("Events", ...) from event k on.
FixEvents(lib, k, counter, use_uuids, fresh) ==
    IF k > Len(lib.events)
    THEN [lib |-> lib, counter |-> counter]
    ELSE LET x     == lib.events[k]
             newId == NewAtId("cmu:Events", Underscored(x.name), counter,
                              use_uuids, fresh)
             lib2  == [lib EXCEPT !.events[k].atId = newId]
         IN  With(sub_id(lib2, x.atId, newId),
                  LAMBDA next : FixEvents(next, k + 1, counter + 1,
                                          use_uuids, fresh))

RECURSIVE FixRelations(_, _, _, _, _)
\* fix_for_ke_type("Relations", ...) from relation k on; the name is the
\* relation's wd_label.
FixRelations(lib, k, counter, use_uuids, fresh) ==
    IF k > Len(RelationsOf(lib))
    THEN [lib |-> lib, counter |-> counter]
    ELSE LET x     == lib.relations[k]
             newId == NewAtId("cmu:Relations", Underscored(x.wd_label), counter,
                              use_uuids, fresh)
             lib2  == [lib EXCEPT !.relations[k].atId = newId]
         IN  With(sub_id(lib2, x.atId, newId),
                  LAMBDA next : FixRelations(next, k + 1, counter + 1,
                                             use_uuids, fresh))

RECURSIVE FixParticipants(_, _, _, _, _, _)
\* fix_for_ke_type("Participants", ...) from participant j of event k on; the
\* name is the last segment of the participant's entity.
FixParticipants(lib, k, j, counter, use_uuids, fresh) ==
    IF k > Len(lib.events)
    THEN [lib |-> lib, counter |-> counter]
    ELSE IF j > Len(lib.events[k].participants)
    THEN FixParticipants(lib, k + 1, 1, counter, use_uuids, fresh)
    ELSE LET x     == lib.events[k].participants[j]
             newId == NewAtId("cmu:Participants", LastSegment(x.entity),
                              counter, use_uuids, fresh)
             lib2  == [lib EXCEPT !.events[k].participants[j].atId = newId]
         IN  With(sub_id(lib2, x.atId, newId),
                  LAMBDA next : FixParticipants(next, k, j + 1, counter + 1,
                                                use_uuids, fresh))

\* util.fix_atIds(lib, use_uuids): entities, events, relations, then
\* participants, one counter over all; yields the document and the number of
\* @id's it gave.  (The documents have no "instances".)
fix_atIds(lib, use_uuids, fresh) ==
    With(lib, LAMBDA doc :
    With(FixEntities(doc, 1, 0, use_uuids, fresh), LAMBDA entities :
    With(FixEvents(entities.lib, 1, entities.counter, use_uuids, fresh),
         LAMBDA events :
    With(FixRelations(events.lib, 1, events.counter, use_uuids, fresh),
         LAMBDA relations :
    FixParticipants(relations.lib, 1, 1, relations.counter, use_uuids, fresh)))))

\* _tag_objects: privateData.originalDocumentId of every object becomes s.
tag_objects(tag, objs) == [k \in 1..Len(objs) |-> [objs[k] EXCEPT !.tag = tag]]

\* _add_to_library: the events and the entities of sdf_data (without its
\* argument entities when remove_args) are tagged and appended; isSchemaArg
\* of every entity added is False.
add_to_library(library, sdf_data, remove_args) ==
    LET entities == SelectSeq(sdf_data.entities,
                              LAMBDA e : ~(remove_args /\ e.isSchemaArg))
        cleared  == [k \in 1..Len(entities) |->
                        [entities[k] EXCEPT !.isSchemaArg = FALSE]]
    IN  [library EXCEPT
           !.events = library.events \o tag_objects(sdf_data.atId, sdf_data.events),
           !.entities = library.entities \o tag_objects(sdf_data.atId, cleared)]

\* event.get("wd_node", "")[:4] == "cmu:"
IsCmu(node) == node # NULL /\ node[1] = "cmu:Schema"

\* WIKI_PAT.match(wd_node)
IsWiki(node) == node # NULL /\ node[1] = "wd:Q1"

\* args[roleName]: the argument entities of the subschema by name (of two
\* with one name the later one); <<>> when there is none (KeyError).
ArgNamed(subschema, roleName) ==
    LET named == SelectSeq(subschema.entities,
                           LAMBDA e : e.isSchemaArg /\ e.name = roleName)
    IN  IF named = <<>> THEN <<>> ELSE <<named[Len(named)]>>

RECURSIVE BindArgs(_, _, _, _)
\* The loop over the participants of the placeholder event, from ps[k] on:
\* the argument named by the role is replaced by the participant's entity in
\* the subschema and leaves unused_args.
BindArgs(subschema, ps, k, unused_args) ==
    IF k > Len(ps)
    THEN [subschema |-> subschema, unused_args |-> unused_args, exc |-> NoExc]
    ELSE LET arg == ArgNamed(subschema, ps[k].roleName)
         IN  IF arg = <<>>
             THEN [subschema |-> subschema, unused_args |-> unused_args,
                   exc |-> Exc("KeyError", NULL)]
             ELSE IF arg[1].atId \notin unused_args
             THEN [subschema |-> subschema, unused_args |-> unused_args,
                   exc |-> Exc("KeyError", NULL)]
             ELSE With(sub_id(subschema, arg[1].atId, ps[k].entity),
                       LAMBDA next : BindArgs(next, ps, k + 1,
                                              unused_args \ {arg[1].atId}))

\* del ps[j], j counted from 0
DelAt(ps, j) == [k \in 1..(Len(ps) - 1) |-> IF k <= j THEN ps[k] ELSE ps[k + 1]]

RECURSIVE DropUnused(_, _, _, _)
\* The while loop over the participants ps of one event of the subschema,
\* at position j (from 0): a participant whose entity is an unused argument
\* is deleted, otherwise j advances by i, the position of the placeholder
\* in the library; with i = 0 the loop does not advance and never ends.
DropUnused(ps, j, i, unused_args) ==
    IF j >= Len(ps)
    THEN [ps |-> ps, ends |-> TRUE]
    ELSE IF ps[j + 1].entity \in unused_args
    THEN With(DelAt(ps, j), LAMBDA rest : DropUnused(rest, j, i, unused_args))
    ELSE IF i = 0
    THEN [ps |-> ps, ends |-> FALSE]
    ELSE DropUnused(ps, j + i, i, unused_args)

\* The loop over the events of the subschema.
DropUnusedArgs(subschema, i, unused_args) ==
    LET dropped == [k \in 1..Len(subschema.events) |->
                       DropUnused(subschema.events[k].participants, 0, i,
                                  unused_args)]
    IN  IF \E k \in 1..Len(dropped) : ~dropped[k].ends
        THEN [subschema |-> subschema, exc |-> Exc("NeverReturns", NULL)]
        ELSE [subschema |->
                 [subschema EXCEPT !.events =
                     [k \in 1..Len(subschema.events) |->
                         [subschema.events[k] EXCEPT
                             !.participants = dropped[k].ps]]],
              exc |-> NoExc]

\* all_roots = all_events - all_children
AllRoots(subschema) ==
    {subschema.events[k].atId : k \in 1..Len(subschema.events)}
    \ UNION {{subschema.events[k].children[c] :
                 c \in 1..Len(subschema.events[k].children)} :
             k \in 1..Len(subschema.events)}

\* The rest of one round of inject_subschemas, the subschema having been
\* loaded and its arguments bound: the placeholder at position i (from 0)
\* is deleted, the subschema is added, and the references to the
\* placeholder are turned to the root of the subschema.
Inline(lib, i, event, subschema) ==
    LET without == [lib EXCEPT !.events = DelAt(lib.events, i)]
        added   == add_to_library(without, subschema, TRUE)
        roots   == AllRoots(subschema)
    IN  IF Cardinality(roots) > 1
        THEN [lib |-> added, exc |-> Exc("ValueError", subschema.atId)]
        ELSE IF roots = {}
        THEN [lib |-> added, exc |-> Exc("IndexError", NULL)]
        ELSE [lib |-> sub_id(added, event.atId, CHOOSE r \in roots : TRUE),
              exc |-> NoExc]

\* The documents an event of the library was taken from, directly or by way
\* of the placeholders it was inlined for; via holds a pair <<event, document>>
\* for every document that is not the one the event is tagged with.
Ancestors(event, via) ==
    {event.tag} \cup {p[2] : p \in {q \in via : q[1] = event.atId}}

\* The round for this placeholder inlines a document which the placeholder
\* itself came from.  The placeholder passes no arguments, so the round ends
\* as the earlier round for that document did, and leaves a copy of this
\* placeholder further along in the events: the while loop does not end.
Recurs(event, via) ==
    event.wd_node \in Ancestors(event, via) /\ event.participants = <<>>

RECURSIVE InjectFrom(_, _, _, _, _)
\* inject_subschemas from position i (from 0) of the events of lib on: yields
\* the library, the exception raised, and the number of uuids given.
InjectFrom(tbl, lib, i, fresh, via) ==
    IF i >= Len(lib.events)
    THEN [lib |-> lib, exc |-> NoExc, fresh |-> fresh]
    ELSE LET event == lib.events[i + 1]
             rows  == SelectById(tbl, event.wd_node)
         IN  IF ~IsCmu(event.wd_node)
             THEN InjectFrom(tbl, lib, i + 1, fresh, via)
             ELSE IF rows = <<>>
             THEN InjectFrom(tbl, lib, i + 1, fresh, via)
             ELSE IF loads_sdf(rows[1].data).exc.kind = "ValidationError"
             THEN InjectFrom(tbl, lib, i + 1, fresh, via)
             ELSE IF loads_sdf(rows[1].data).exc # NoExc
             THEN [lib |-> lib, exc |-> loads_sdf(rows[1].data).exc,
                   fresh |-> fresh]
             ELSE IF Recurs(event, via)
             THEN [lib |-> lib, exc |-> Exc("NeverReturns", NULL), fresh |-> fresh]
             ELSE
             With(fix_atIds(rows[1].data, TRUE, fresh), LAMBDA fixed :
             LET fresh2 == fresh + fixed.counter
                 args   == SelectSeq(fixed.lib.entities, LAMBDA e : e.isSchemaArg)
                 unused == {ArgNamed(fixed.lib, args[k].name)[1].atId :
                               k \in 1..Len(args)}
             IN
             With(BindArgs(fixed.lib, event.participants, 1, unused),
                  LAMBDA bound :
             IF bound.exc # NoExc
             THEN [lib |-> lib, exc |-> bound.exc, fresh |-> fresh2]
             ELSE
             With(DropUnusedArgs(bound.subschema, i, bound.unused_args),
                  LAMBDA dropped :
             IF dropped.exc # NoExc
             THEN [lib |-> lib, exc |-> dropped.exc, fresh |-> fresh2]
             ELSE
             With(Inline(lib, i, event, dropped.subschema), LAMBDA inlined :
             IF inlined.exc # NoExc
             THEN [lib |-> inlined.lib, exc |-> inlined.exc, fresh |-> fresh2]
             ELSE InjectFrom(tbl, inlined.lib, i, fresh2,
                             via \cup {<<dropped.subschema.events[k].atId, d>> :
                                          k \in 1..Len(dropped.subschema.events),
                                          d \in Ancestors(event, via)})))))

inject_subschemas(tbl, lib, fresh) ==
    With(lib, LAMBDA library : InjectFrom(tbl, library, 0, fresh, {}))

\* Identifiers of the documents composed, and all document identifiers in
\* the order of Python's string comparison.
IdP == <<"cmu:Schema", "p">>

IdQ == <<"cmu:Schema", "q">>

IdS == <<"cmu:Schema", "s">>

IdT == <<"cmu:Schema", "t">>

IdV == <<"cmu:Schema", "v">>

IdOrder == <<IdA, IdB, IdC, IdP, IdQ, IdS, IdT, IdNew, IdV>>

RECURSIVE LoadRows(_, _, _)
\* The loop of package_schemas over the rows selected, from rows[k] on: a
\* row that fails validation is skipped, any other exception escapes.
LoadRows(rows, k, schemas) ==
    IF k > Len(rows)
    THEN [schemas |-> schemas, exc |-> NoExc]
    ELSE LET loaded == loads_sdf(rows[k].data)
         IN  IF loaded.exc.kind = "ValidationError"
             THEN LoadRows(rows, k + 1, schemas)
             ELSE IF loaded.exc # NoExc
             THEN [schemas |-> schemas, exc |-> loaded.exc]
             ELSE LoadRows(rows, k + 1, Append(schemas, loaded.data))

\* Mutant: the schemas stay in the order of the rows.
SortedFrom_RowOrder(schemas, k) == IF k > 1 THEN <<>> ELSE schemas

RECURSIVE SortedFrom(_, _)
\* sorted(schemas, key=lambda x: x["@id"]), from the k-th identifier on.
SortedFrom(schemas, k) ==
    IF k > Len(IdOrder)
    THEN <<>>
    ELSE SelectSeq(schemas, LAMBDA d : d.atId = IdOrder[k])
         \o SortedFrom(schemas, k + 1)

\* The place of an identifier in IdOrder.
IdRank(id) == CHOOSE k \in 1..Len(IdOrder) : IdOrder[k] = id

RECURSIVE Power(_, _)
Power(b, e) == IF e = 0 THEN 1 ELSE b * Power(b, e - 1)

\* json.dumps(s).encode(): the text of a document as byte values; documents
\* that differ in their identifier, in the number of their objects, or in
\* the order, the participants or the children of their events have
\* different texts.
json_dumps(doc) ==
    LET EventBytes(e) == <<9, Len(e.participants), Len(e.children),
                           IF IsCmu(e.wd_node) THEN 1 ELSE 0>>
        RECURSIVE Events(_)
        Events(k) == IF k > Len(doc.events) THEN <<>>
                     ELSE EventBytes(doc.events[k]) \o Events(k + 1)
    IN  <<IdRank(doc.atId), Len(doc.entities), Len(doc.events)>> \o Events(1)

RECURSIVE Absorb(_, _, _)
\* hasher.update(data), from data[k] on: the state of the hash function
\* after it has taken in the bytes.  The function stands for blake2b; what
\* is kept of it is that the state is determined by the bytes taken in, in
\* their order.
Absorb(h, data, k) ==
    IF k > Len(data) THEN h
    ELSE Absorb((h * 31 + data[k]) % Power(256, DigestSize), data, k + 1)

RECURSIVE HashSchemas(_, _, _)
\* for s in schemas: hasher.update(json.dumps(s).encode())
HashSchemas(h, sorted, k) ==
    IF k > Len(sorted) THEN h
    ELSE HashSchemas(Absorb(h, json_dumps(sorted[k]), 1), sorted, k + 1)

\* hasher.digest(): the bytes of the state
HashDigest(h) == [i \in 1..DigestSize |-> (h \div Power(256, i - 1)) % 256]

_alphabet ==
    <<"0", "1", "2", "3", "4", "5", "6", "7", "8", "9",
      "A", "B", "C", "D", "E", "F", "G", "H", "I", "J", "K", "L", "M",
      "N", "O", "P", "Q", "R", "S", "T", "U", "V", "W", "X", "Y", "Z",
      "a", "b", "c", "d", "e", "f", "g", "h", "i", "j", "k", "l", "m",
      "n", "o", "p", "q", "r", "s", "t", "u", "v", "w", "x", "y", "z">>

RECURSIVE Base62Digits(_)
\* The while loop of digest_to_base62: the digits of n, the lowest first.
Base62Digits(n) ==
    IF n > 0
    THEN <<_alphabet[(n % Len(_alphabet)) + 1]>>
         \o Base62Digits(n \div Len(_alphabet))
    ELSE <<>>

RECURSIVE BytesValue(_, _)
\* sum(x * 2 ** (8 * i) for i, x in enumerate(b)), from b[k] on
BytesValue(b, k) ==
    IF k > Len(b) THEN 0 ELSE b[k] * Power(2, 8 * (k - 1)) + BytesValue(b, k + 1)

\* digest_to_base62(b): a string, as the sequence of its characters
digest_to_base62(b) == Base62Digits(BytesValue(b, 1))

\* The digest of the input of a composition.
InputDigest(sorted) == digest_to_base62(HashDigest(HashSchemas(7, sorted, 1)))

\* f"{name}-{digest}"
LibraryName(name, digest) == <<name, "-", digest>>

RECURSIVE AddTopLevel_All(_, _, _, _, _)
\* Mutant: every schema selected is added, also one that another includes
\* as a subschema.
AddTopLevel_All(library, sorted, k, all_event_types, fresh) ==
    IF k > Len(sorted)
    THEN [lib |-> library, fresh |-> fresh]
    ELSE With(fix_atIds(sorted[k], TRUE, fresh), LAMBDA fixed :
         With(add_to_library(library, fixed.lib, FALSE), LAMBDA added :
         AddTopLevel_All(added, sorted, k + 1, all_event_types,
                         fresh + fixed.counter)))

RECURSIVE AddTopLevel(_, _, _, _, _)
\* The loop that adds the schemas which no selected schema includes as a
\* subschema, from sorted[k] on.
AddTopLevel(library, sorted, k, all_event_types, fresh) ==
    IF k > Len(sorted)
    THEN [lib |-> library, fresh |-> fresh]
    ELSE IF sorted[k].atId \in all_event_types
    THEN AddTopLevel(library, sorted, k + 1, all_event_types, fresh)
    ELSE With(fix_atIds(sorted[k], TRUE, fresh), LAMBDA fixed :
         With(add_to_library(library, fixed.lib, FALSE), LAMBDA added :
         AddTopLevel(added, sorted, k + 1, all_event_types,
                     fresh + fixed.counter)))

\* The items Wikidata knows, and the English label it has for an item.
WikiItems == {"Q1"}

WikiLabel(item) == "q1"

\* WIKI_PAT.sub("", wd_node): the node without its prefix
WikiItem(node) == "Q1"

\* get_wikidata_values(item) with the cache wd; online tells whether the
\* request to Wikidata gets through.  The label of a cached item is read
\* from the cache; otherwise the service is asked and a label it returns is
\* cached, while for an item it does not know the result is ("", "").
\* [exc, label, wd]
get_wikidata_values(wd, online, item) ==
    IF item \in wd
    THEN [exc |-> NoExc, label |-> WikiLabel(item), wd |-> wd]
    ELSE IF ~online
    THEN [exc |-> Exc("ConnectionError", NULL), label |-> "", wd |-> wd]
    ELSE IF item \notin WikiItems
    THEN [exc |-> NoExc, label |-> "", wd |-> wd]
    ELSE [exc |-> NoExc, label |-> WikiLabel(item), wd |-> wd \cup {item}]

RECURSIVE FixWdFrom(_, _, _, _)
\* _fix_wd_values from event k on: a Wikidata node gets its label; on a
\* cmu: node _ensure_wd_values ends in "assert False".  [lib, exc, wd]
FixWdFrom(lib, k, wd, online) ==
    IF k > Len(lib.events)
    THEN [lib |-> lib, exc |-> NoExc, wd |-> wd]
    ELSE IF IsWiki(lib.events[k].wd_node)
    THEN With(get_wikidata_values(wd, online, WikiItem(lib.events[k].wd_node)),
              LAMBDA got :
                IF got.exc # NoExc
                THEN [lib |-> lib, exc |-> got.exc, wd |-> got.wd]
                ELSE With([lib EXCEPT !.events[k].wd_label = got.label],
                          LAMBDA next : FixWdFrom(next, k + 1, got.wd, online)))
    ELSE IF IsCmu(lib.events[k].wd_node)
    THEN [lib |-> lib, exc |-> Exc("AssertionError", NULL), wd |-> wd]
    ELSE FixWdFrom(lib, k + 1, wd, online)

fix_wd_values(lib, wd, online) ==
    With(lib, LAMBDA library : FixWdFrom(library, 1, wd, online))

\* _fix_children_gates on one event that leaves a gate on an event without
\* children.
fix_children_gate_KeepsGate(e) ==
    LET e1 == IF e.children # NULL /\ Len(e.children[1]) = 0
              THEN [e EXCEPT !.children = NULL] ELSE e
    IN  IF e1.children # NULL /\ Len(e1.children[1]) > 0 /\ e1.children_gate = NULL
        THEN [e1 EXCEPT !.children_gate = Some("and")] ELSE e1

\* The body of the loop of _fix_children_gates on one event e, whose keys
\* children and children_gate are each absent (NULL) or present: an empty
\* children list is deleted, then a gate without children is deleted, then a
\* non-empty children list without a gate gets the gate "and".
fix_children_gate(e) ==
    LET e1 == IF e.children # NULL /\ Len(e.children[1]) = 0
              THEN [e EXCEPT !.children = NULL] ELSE e
        e2 == IF e1.children = NULL /\ e1.children_gate # NULL
              THEN [e1 EXCEPT !.children_gate = NULL] ELSE e1
    IN  IF e2.children # NULL /\ Len(e2.children[1]) > 0 /\ e2.children_gate = NULL
        THEN [e2 EXCEPT !.children_gate = Some("and")] ELSE e2

\* _fix_children_gates: every event of the library in turn.
fix_children_gates(lib) ==
    [lib EXCEPT !.events = [k \in 1..Len(lib.events) |->
                               fix_children_gate(lib.events[k])]]

\* _fix_unused_args with arg_ids built from the entities alone.
fix_unused_args_EntitiesOnly(lib) ==
    LET arg_ids == {lib.entities[k].atId : k \in 1..Len(lib.entities)}
    IN  [lib EXCEPT !.events =
            [k \in 1..Len(lib.events) |->
                [lib.events[k] EXCEPT !.participants =
                    SelectSeq(lib.events[k].participants,
                              LAMBDA q : q.entity \in arg_ids)]]]

\* _fix_unused_args: a participant stays when its entity is the @id of an
\* entity or an event of the library.
fix_unused_args(lib) ==
    LET arg_ids == {lib.entities[k].atId : k \in 1..Len(lib.entities)}
                   \cup {lib.events[k].atId : k \in 1..Len(lib.events)}
    IN  [lib EXCEPT !.events =
            [k \in 1..Len(lib.events) |->
                [lib.events[k] EXCEPT !.participants =
                    SelectSeq(lib.events[k].participants,
                              LAMBDA q : q.entity \in arg_ids)]]]

\* privateData.originalDocumentId of the events and entities of a library.
Tags(lib) ==
    {lib.events[k].tag : k \in 1..Len(lib.events)}
    \cup {lib.entities[k].tag : k \in 1..Len(lib.entities)}

\* package_schemas(name, schema_ids) with the label cache wd: [exc, library,
\* wd, direct], wd being the cache afterwards (a label is cached in a
\* transaction of its own) and direct the documents whose objects the
\* library held when the loop over the schemas had ended.
package_schemas(tbl, wd, online, name, schema_ids) ==
    LET rows    == SelectSeq(tbl, LAMBDA r :
                       \E k \in 1..Len(schema_ids) : r.atId = schema_ids[k])
        loaded  == LoadRows(rows, 1, <<>>)
        schemas == loaded.schemas
        all_event_types ==
            UNION {{schemas[k].events[e].wd_node :
                       e \in 1..Len(schemas[k].events)} : k \in 1..Len(schemas)}
        sorted  == SortedFrom(schemas, 1)
        library == [atId |-> <<"cmu:Schema",
                               LibraryName(name, InputDigest(sorted))>>,
                    entities |-> <<>>,
                    events |-> <<>>, rev |-> 0, conforms |-> TRUE,
                    inputDigest |-> InputDigest(sorted),
                    constitutentSchemas |-> schema_ids]
    IN  IF loaded.exc # NoExc
        THEN [exc |-> loaded.exc, library |-> NULL, wd |-> wd, direct |-> {}]
        ELSE
        With(AddTopLevel(library, sorted, 1, all_event_types, 0), LAMBDA top :
        With(inject_subschemas(tbl, top.lib, top.fresh), LAMBDA injected :
        IF injected.exc # NoExc
        THEN [exc |-> injected.exc, library |-> NULL, wd |-> wd,
              direct |-> Tags(top.lib)]
        ELSE
        With(fix_atIds(injected.lib, FALSE, 0).lib, LAMBDA renamed :
        With(fix_wd_values(renamed, wd, online), LAMBDA labelled :
        IF labelled.exc # NoExc
        THEN [exc |-> labelled.exc, library |-> NULL, wd |-> labelled.wd,
              direct |-> Tags(top.lib)]
        ELSE [exc |-> NoExc,
              library |-> Some(fix_unused_args(labelled.lib)),
              wd |-> labelled.wd,
              direct |-> Tags(top.lib)]))))

\* PackageSchemas.on_post: the library is the body; every exception of
\* package_schemas becomes HTTPInternalServerError.  `raised` keeps the
\* exception of package_schemas, "NeverReturns" when it does not return.
PackageSchemas_on_post(tbl, wd, online, name, schema_ids) ==
    With(package_schemas(tbl, wd, online, name, schema_ids), LAMBDA out :
        [raised |-> out.exc,
         wd     |-> out.wd,
         status |-> IF out.exc = NoExc THEN "200"
                    ELSE IF out.exc.kind = "NeverReturns" THEN "NeverReturns"
                    ELSE "HTTPInternalServerError",
         body   |-> out.library,
         direct |-> out.direct])

\* Wikidata.on_get(item_id): the label is the body; a connection error
\* becomes HTTPServiceUnavailable.
Wikidata_on_get(wd, online, item_id) ==
    With(get_wikidata_values(wd, online, item_id), LAMBDA result :
        [status |-> IF result.exc = NoExc THEN "200" ELSE "HTTPServiceUnavailable",
         body   |-> IF result.exc = NoExc THEN Some(result.label) ELSE NULL,
         wd     |-> result.wd])

(***************************************************************************)
(* The documents composed.  T is a schema with an entity x, an event h and *)
(* a placeholder event p for the subschema s: p is a child of h and passes *)
(* x for the argument arg1.  The subschema has the arguments arg1 and      *)
(* arg2, an entity n of its own, and the events r and k.                   *)
(***************************************************************************)
EntX == SdfEntity(<<"cmu:Entities", "x">>, "x", FALSE)

EvP == SdfEvent(<<"cmu:Events", "p">>, "p", IdS,
                <<SdfParticipant(<<"cmu:Participants", "p1">>, "arg1",
                                 EntX.atId)>>, <<>>)

EvH == SdfEvent(<<"cmu:Events", "h">>, "h", WdQ, <<>>, <<EvP.atId>>)

\* T with the placeholder as its first or as its second event.
DocT(placeholder_first) ==
    SdfDocument(IdT, <<EntX>>,
                IF placeholder_first THEN <<EvP, EvH>> ELSE <<EvH, EvP>>, TRUE)

Arg1 == SdfEntity(<<"cmu:Entities", "a1">>, "arg1", TRUE)

Arg2 == SdfEntity(<<"cmu:Entities", "a2">>, "arg2", TRUE)

EntN == SdfEntity(<<"cmu:Entities", "n">>, "n", FALSE)

EvK(children) ==
    SdfEvent(<<"cmu:Events", "k">>, "k", WdQ,
             <<SdfParticipant(<<"cmu:Participants", "k1">>, "A0", Arg1.atId)>>,
             children)

EvR(children) ==
    SdfEvent(<<"cmu:Events", "r">>, "r", WdQ,
             <<SdfParticipant(<<"cmu:Participants", "r1">>, "A0", Arg1.atId),
               SdfParticipant(<<"cmu:Participants", "r2">>, "A1", Arg2.atId),
               SdfParticipant(<<"cmu:Participants", "r3">>, "A2", EntN.atId)>>,
             children)

\* The subschema with one root: k is the child of r.
SubOne == SdfDocument(IdS, <<Arg1, Arg2, EntN>>,
                      <<EvR(<<EvK(<<>>).atId>>), EvK(<<>>)>>, TRUE)

\* Two roots: neither event is a child.
SubTwoRoots == SdfDocument(IdS, <<Arg1, Arg2, EntN>>,
                           <<EvR(<<>>), EvK(<<>>)>>, TRUE)

\* No root: each event is the child of the other.
SubCycle == SdfDocument(IdS, <<Arg1, Arg2, EntN>>,
                        <<EvR(<<EvK(<<>>).atId>>), EvK(<<EvR(<<>>).atId>>)>>,
                        TRUE)

\* No root: no events.
SubNoEvents == SdfDocument(IdS, <<Arg1, Arg2, EntN>>, <<>>, TRUE)

\* An event that stands for the document node and passes no arguments.
EvRef(node) == SdfEvent(<<"cmu:Events", "k">>, "k", node, <<>>, <<>>)

\* The subschema s whose event k stands for s itself.
SubSelf == SdfDocument(IdS, <<Arg1, Arg2, EntN>>,
                       <<EvR(<<EvRef(IdS).atId>>), EvRef(IdS)>>, TRUE)

\* The subschemas s and v, each with an event that stands for the other.
SubToV == SdfDocument(IdS, <<Arg1, Arg2, EntN>>,
                      <<EvR(<<EvRef(IdV).atId>>), EvRef(IdV)>>, TRUE)

SubV == SdfDocument(IdV, <<EntN>>,
                    <<SdfEvent(<<"cmu:Events", "g">>, "g", WdQ, <<>>,
                               <<EvRef(IdS).atId>>),
                      EvRef(IdS)>>, TRUE)

Subschemas == {SubOne, SubTwoRoots, SubCycle, SubNoEvents, SubSelf}

\* A schema without subschemas, and a document that does not conform; the
\* second row of a table is this document, or text that is not JSON,
\* written to the store directly and not yet seen by the validation pass.
DocP == SdfDocument(IdP, <<EntX>>, <<EvH>>, TRUE)

DocQ == SdfDocument(IdQ, <<EntN>>, <<EvK(<<>>)>>, FALSE)

ComposeTables ==
    UNION {{<<Stored(DocT(f)), Stored(sub)>> : sub \in Subschemas}
           \cup {<<Stored(DocT(f)), Quarantined(SubOne)>>, <<Stored(DocT(f))>>} :
           f \in BOOLEAN}
    \cup {<<Stored(DocP), Raw(IdQ, DocQ)>>, <<Stored(DocP), Raw(IdQ, NotJson)>>,
          <<Stored(DocT(FALSE)), Stored(SubToV), Stored(SubV)>>}

ComposeIds == {<<IdT>>, <<IdS, IdT>>, <<IdT, IdS>>, <<IdS>>, <<IdP>>,
               <<IdP, IdQ>>, <<IdQ, IdP>>, <<IdQ>>, <<IdS, IdV>>}

ComposeNames == {"lib"}

\* The items looked up: one that Wikidata knows and one that it does not.
LookupItems == {"Q1", "Q0"}

ComposeLockIds == {IdT, IdP}

InitCompose ==
    /\ schema \in ComposeTables
    /\ now = 0
    /\ req = [c \in Clients |-> Idle]
    /\ last = NoTxn
    /\ wd_node = {}
    /\ all_ids = {}

\* Mutant: the request takes the lease on every document it names, for the
\* client that composes.
Compose_TakesLeases(name, schema_ids, online) ==
    /\ \E out \in {PackageSchemas_on_post(schema, wd_node, online, name,
                                          schema_ids)} :
          /\ last' = [req |-> [op |-> "package_schemas", name |-> name,
                               schema_ids |-> schema_ids, online |-> online],
                      status |-> out.status, names |-> out.raised.names,
                      before |-> NULL, raised |-> out.raised.kind,
                      returned |-> out.body, cached |-> wd_node,
                      direct |-> out.direct]
          /\ wd_node' = out.wd
    /\ schema' = [i \in 1..Len(schema) |->
                     IF \E k \in 1..Len(schema_ids) : schema[i].atId = schema_ids[k]
                     THEN [schema[i] EXCEPT !.lock_ts = Some(now),
                                            !.holder_id = Some("A")]
                     ELSE schema[i]]
    /\ UNCHANGED <<now, req, all_ids>>

\* A client posts to the packaging endpoint.
\* online: whether a request to Wikidata gets through while this one is
\* served.  `cached` is the label cache before the request.
Compose(name, schema_ids, online) ==
    /\ \E out \in {PackageSchemas_on_post(schema, wd_node, online, name,
                                          schema_ids)} :
          /\ last' = [req |-> [op |-> "package_schemas", name |-> name,
                               schema_ids |-> schema_ids, online |-> online],
                      status |-> out.status, names |-> out.raised.names,
                      before |-> NULL, raised |-> out.raised.kind,
                      returned |-> out.body, cached |-> wd_node,
                      direct |-> out.direct]
          /\ wd_node' = out.wd
    /\ UNCHANGED <<schema, now, req, all_ids>>

\* A client asks for the label of a Wikidata item.
Lookup(item_id, online) ==
    /\ \E out \in {Wikidata_on_get(wd_node, online, item_id)} :
          /\ last' = [req |-> [op |-> "wikidata_get", item_id |-> item_id,
                               online |-> online],
                      status |-> out.status, names |-> NULL, before |-> NULL,
                      returned |-> out.body, cached |-> wd_node]
          /\ wd_node' = out.wd
    /\ UNCHANGED <<schema, now, req, all_ids>>

NextCompose ==
    \/ Startup
    \/ \E name \in ComposeNames : \E ids \in ComposeIds :
          \E online \in BOOLEAN : Compose(name, ids, online)
    \/ \E item_id \in LookupItems : \E online \in BOOLEAN :
          Lookup(item_id, online)
    \/ \E c \in Clients :
          \E r \in LockRequests({"lock_put"}, ComposeLockIds, c) : Direct(c, r)

SpecCompose == InitCompose /\ [][NextCompose]_vars

(***************************************************************************)
(* The helpers of util.py and the loops of inject_subschemas, applied to   *)
(* inputs drawn from bounded sets.  No request is served and the Schema    *)
(* table is not read; `last` records the call and what it gave.            *)
(***************************************************************************)
\* The longest participant list, and the positions of a placeholder event.
MaxParticipants == 3

MaxPosition == 2

\* The participant lists of an event of a subschema: each refers to an
\* argument entity or to an entity that is no argument.
ParticipantLists ==
    UNION {[1..n -> {Arg1.atId, Arg2.atId, EntN.atId}] : n \in 0..MaxParticipants}

Participants(entities) ==
    [k \in 1..Len(entities) |-> SdfParticipant(Uuid(k), "r", entities[k])]

\* A string of util.py is the sequence of its characters.
Cmu == <<"c", "m", "u", ":">>

\* The characters of the model that ACCEPTABLE_CHARS holds; '/', ':', the
\* space and the newline are not among them.
ACCEPTABLE_CHARS ==
    {"a", "c", "m", "u", "$", "_", "1", "2", "3", "4", "5", "6"}

FILLER_CHAR == "$"

\* s[a:b] of Python, a and b counted from 0.
Slice(s, a, b) == [k \in 1..((IF b < Len(s) THEN b ELSE Len(s)) - a) |-> s[a + k]]

\* The pattern ^cmu:[ACCEPTABLE_CHARS/]*[ACCEPTABLE_CHARS] over all of s.
FullMatch(s) ==
    /\ Len(s) >= 5
    /\ Slice(s, 0, 4) = Cmu
    /\ \A k \in 5..Len(s) : s[k] \in ACCEPTABLE_CHARS \cup {"/"}
    /\ s[Len(s)] \in ACCEPTABLE_CHARS

\* CMU_ID_REGEX.match(s): '$' matches at the end of the string and also just
\* before a newline that ends it.
is_valid_cmu_id(s) ==
    \/ FullMatch(s)
    \/ Len(s) >= 1 /\ s[Len(s)] = "\n" /\ FullMatch(Slice(s, 0, Len(s) - 1))

\* re.sub(f"[^{ACCEPTABLE_CHARS}/]", FILLER_CHAR, s)
Substitute(s) ==
    [k \in 1..Len(s) |->
        IF s[k] \in ACCEPTABLE_CHARS \cup {"/"} THEN s[k] ELSE FILLER_CHAR]

\* The repair of a string that is_valid_cmu_id rejects.
Repair(s) ==
    LET filled   == IF s[Len(s)] = "/" THEN Append(s, FILLER_CHAR) ELSE s
        prefixed == IF Slice(filled, 0, 4) # Cmu THEN Cmu \o filled ELSE filled
    IN  Cmu \o Substitute(Slice(prefixed, 4, Len(prefixed)))

\* f"_{i}"
SuffixNames == <<"1", "2", "3", "4", "5", "6">>

Suffix(i) == <<"_", SuffixNames[i]>>

RECURSIVE FirstFree(_, _, _, _)
\* The while loop: the suffix with which s is not in ids.
FirstFree(ids, s, suffix, i) ==
    IF (s \o suffix) \in ids
    THEN FirstFree(ids, s, Suffix(i), i + 1)
    ELSE s \o suffix

\* ensure_valid_cmu_id(all_ids, s): [returned, all_ids]
ensure_valid_cmu_id(ids, s) ==
    LET fixed == IF ~is_valid_cmu_id(s) THEN Repair(s) ELSE s
        new_s == FirstFree(ids, fixed, <<>>, 1)
    IN  [returned |-> new_s, all_ids |-> ids \cup {new_s}]

\* The candidates: with or without the prefix, then up to MaxBody characters.
MaxBody == 2

CandidateChars == {"a", "/", " ", "\n"}

Candidates ==
    {prefix \o body :
        prefix \in {<<>>, Cmu},
        body \in UNION {[1..n -> CandidateChars] : n \in 0..MaxBody}}
    \ {<<>>}

\* The number of calls a caller makes on one set, and the sets of
\* identifiers the first call finds.
MaxCalls == 2

AllocateSets == {{}, {Cmu \o <<"a">>}, {Cmu \o <<"a">>, Cmu \o <<"a">> \o Suffix(1)}}

AllocateCalls ==
    {[op |-> "allocate", candidate |-> s, given |-> <<>>] : s \in Candidates}

(***************************************************************************)
(* JSON values as sub_id walks them: a string [t |-> "str", s |-> ...], a  *)
(* list [t |-> "list", items |-> <<values>>] and a dict [t |-> "dict",     *)
(* entries |-> <<[key, val], ...>>], its keys in the order of insertion.   *)
(***************************************************************************)
JStr(s) == [t |-> "str", s |-> s]

JList(items) == [t |-> "list", items |-> items]

JDict(entries) == [t |-> "dict", entries |-> entries]

Entry(key, val) == [key |-> key, val |-> val]

RECURSIVE SubAt_AlsoAtId(_, _, _, _)
\* Mutant: the value under "@id" is replaced as every other value is.
SubAt_AlsoAtId(k, val, target, replacement) ==
    IF val.t = "str" /\ val.s = target
    THEN JStr(replacement)
    ELSE IF val.t = "list"
    THEN JList([j \in 1..Len(val.items) |->
                   SubAt_AlsoAtId(j, val.items[j], target, replacement)])
    ELSE IF val.t = "dict"
    THEN JDict([j \in 1..Len(val.entries) |->
                   Entry(val.entries[j].key,
                         SubAt_AlsoAtId(val.entries[j].key, val.entries[j].val, target,
                                        replacement))])
    ELSE val

RECURSIVE SubAt(_, _, _, _)
\* The body of the loop of sub_id for the key (or index) k that holds val:
\* _obj[k] = replacement if k != "@id" and _obj[k] == target; otherwise
\* sub_id(_obj[k], ...) if it is a list or a dict.
SubAt(k, val, target, replacement) ==
    IF k # "@id" /\ val.t = "str" /\ val.s = target
    THEN JStr(replacement)
    ELSE IF val.t = "list"
    THEN JList([j \in 1..Len(val.items) |->
                   SubAt("", val.items[j], target, replacement)])
    ELSE IF val.t = "dict"
    THEN JDict([j \in 1..Len(val.entries) |->
                   Entry(val.entries[j].key,
                         SubAt(val.entries[j].key, val.entries[j].val, target, replacement))])
    ELSE val

\* util.sub_id(obj, target, replacement) on a JSON value: [exc, obj].  The
\* index of a list is an integer, which never equals "@id".
sub_id_json(obj, target, replacement) ==
    IF obj.t \notin {"list", "dict"}
    THEN [exc |-> Exc("ValueError", NULL), obj |-> obj]
    ELSE [exc |-> NoExc, obj |-> SubAt("", obj, target, replacement)]

\* The identifiers rewritten, and a string that is neither.
OldId == "cmu:Events/old"

NewId == "cmu:Events/new"

JStrings == {JStr(OldId), JStr(NewId), JStr("x")}

\* The longest list of the documents rewritten.
MaxItems == 2

JLists(values) == {JList(items) : items \in UNION {[1..n -> values] : n \in 0..MaxItems}}

\* The objects of a document: an "@id", which is a string, and a field.
JObjects(values) ==
    {JDict(<<Entry("@id", id), Entry("ref", val)>>) : id \in JStrings, val \in values}

\* The documents: "@id", a field holding a string, a list of strings or an
\* object, and a list of objects.
JDocuments ==
    {JDict(<<Entry("@id", id), Entry("field", val), Entry("items", JList(items))>>) :
        id \in {JStr(OldId), JStr("x")},
        val \in JStrings \cup JLists(JStrings) \cup JObjects(JStrings),
        items \in {<<>>} \cup {<<o>> : o \in JObjects(JStrings \cup JLists({JStr(OldId)}))}}

RewriteCalls ==
    {[op |-> "sub_id", obj |-> obj, target |-> OldId, replacement |-> NewId] :
        obj \in JDocuments \cup {JStr(OldId)}}

\* A call that has been made and has not returned yet.
Called(r) == [req |-> r, status |-> "called"]

CleanupCalls ==
    {[op |-> "cleanup", ps |-> Participants(entities), i |-> i,
      unused_args |-> unused_args] :
        entities \in ParticipantLists, i \in 0..MaxPosition,
        unused_args \in SUBSET {Arg1.atId, Arg2.atId}}

(***************************************************************************)
(* The documents fix_atIds renumbers: one or two entities, one or two      *)
(* events of which the first has a participant and a child, and a          *)
(* relation.  Some of their @id's already have the form the counter gives, *)
(* with the number of another element, so that the @id given to one        *)
(* element can be the @id another element still has.                       *)
(***************************************************************************)
RenumberEntityIds ==
    {<<"cmu:Entities", "00000", "x">>, <<"cmu:Entities", "00001", "x">>,
     <<"cmu:Entities", "a">>}

RenumberEventIds ==
    {<<"cmu:Events", "00001", "p">>, <<"cmu:Events", "00002", "p">>,
     <<"cmu:Events", "e">>}

RenumberRelationIds == {<<"cmu:Relations", "00002", "a_b">>, <<"cmu:Relations", "r">>}

IdsOf(elements) == {elements[k].atId : k \in 1..Len(elements)}

\* The entity lists and, for a set of entity identifiers, the event lists
\* whose participant names one of them and whose child is one of the events.
RenumberEntities ==
    {[k \in 1..Len(ids) |-> SdfEntity(ids[k], "x", FALSE)] :
        ids \in UNION {[1..n -> RenumberEntityIds] : n \in 1..2}}

RenumberEvents(entity_ids) ==
    UNION {{[k \in 1..Len(ids) |->
                IF k = 1
                THEN SdfEvent(ids[1], "p", WdQ,
                              <<SdfParticipant(<<"cmu:Participants", "q">>, "A0",
                                               entity)>>,
                              <<child>>)
                ELSE SdfEvent(ids[k], "p", WdQ, <<>>, <<>>)] :
              entity \in entity_ids, child \in {ids[k] : k \in 1..Len(ids)}} :
           ids \in UNION {[1..n -> RenumberEventIds] : n \in 1..2}}

RenumberDocuments ==
    UNION {UNION {{[SdfDocument(IdS, entities, events, TRUE) EXCEPT !.rev = 0]
                      @@ [relations |->
                             <<SdfRelation(rid, "a b", events[Len(events)].atId,
                                           entities[Len(entities)].atId)>>] :
                     rid \in RenumberRelationIds} :
                  events \in RenumberEvents(IdsOf(entities))} :
           entities \in RenumberEntities}

RenumberCalls ==
    {[op |-> "fix_atIds", lib |-> lib, use_uuids |-> use_uuids] :
        lib \in RenumberDocuments, use_uuids \in BOOLEAN}

\* The candidates of validate_type: what json.loads gave for a stored text or
\* a request body: documents that conform, documents that do not, and a
\* JSON value that is no object.
ValidateCalls ==
    {[op |-> "validate_type", data |-> data] :
        data \in {DocA, DocB, DocC, BadB, [DocA EXCEPT !.conforms = FALSE],
                  JsonArray}}

\* The libraries _fix_unused_args is given: the entities x and n or fewer,
\* the event p alone or followed by the event k, and the participants of p,
\* each of which names x, n, the event k or an entity that no library holds.
PruneTargets ==
    {EntX.atId, EntN.atId, EvK(<<>>).atId, <<"cmu:Entities", "gone">>}

PruneLibraries ==
    {SdfDocument(IdS, entities, events, TRUE) :
        entities \in {<<>>, <<EntX>>, <<EntX, EntN>>},
        events \in UNION {{<<SdfEvent(EvP.atId, "p", WdQ, Participants(targets),
                                      <<>>)>> \o tail :
                              tail \in {<<>>, <<EvK(<<>>)>>}} :
                          targets \in UNION {[1..n -> PruneTargets] :
                                                n \in 0..MaxParticipants}}}

\* The libraries _fix_children_gates is given: one or two events, each with
\* the key children absent, empty or holding one or two children, and with
\* the key children_gate absent or holding a gate.
GateNames == {"and", "or", "xor"}

GatedEvents ==
    {[atId |-> EvP.atId, children |-> children, children_gate |-> gate] :
        children \in {NULL, Some(<<>>), Some(<<EvK(<<>>).atId>>),
                      Some(<<EvK(<<>>).atId, EvR(<<>>).atId>>)},
        gate \in {NULL} \cup {Some(g) : g \in GateNames}}

GateCalls ==
    {[op |-> "fix_children_gates", lib |-> [atId |-> IdS, events |-> events]] :
        events \in UNION {[1..n -> GatedEvents] : n \in 1..2}}

PruneCalls == {[op |-> "fix_unused_args", lib |-> lib] : lib \in PruneLibraries}

UtilCalls ==
    CleanupCalls \cup AllocateCalls \cup RewriteCalls \cup ValidateCalls
    \cup RenumberCalls \cup PruneCalls \cup GateCalls

InitUtil ==
    /\ schema = <<>>
    /\ now = 0
    /\ req = [c \in Clients |-> Idle]
    /\ last \in {Called(r) : r \in UtilCalls}
    /\ wd_node = {}
    /\ all_ids \in IF last.req.op = "allocate" THEN AllocateSets ELSE {{}}

\* The cleanup loop of inject_subschemas (db.py:417-424) on the participants
\* ps of one event of the subschema, the placeholder being events[i].
Cleanup ==
    /\ last.status = "called"
    /\ last.req.op = "cleanup"
    /\ \E out \in {DropUnused(last.req.ps, 0, last.req.i, last.req.unused_args)} :
          last' = [req |-> last.req, status |-> "done", ends |-> out.ends,
                   ps |-> out.ps]
    /\ UNCHANGED <<schema, now, req, wd_node, all_ids>>

\* ensure_valid_cmu_id(all_ids, candidate) returns; given holds what the
\* calls on this set have returned so far.
Allocate ==
    /\ last.status = "called"
    /\ last.req.op = "allocate"
    /\ \E out \in {ensure_valid_cmu_id(all_ids, last.req.candidate)} :
          /\ last' = [req |-> last.req, status |-> "done",
                      returned |-> out.returned, before |-> all_ids,
                      given |-> Append(last.req.given, out.returned)]
          /\ all_ids' = out.all_ids
    /\ UNCHANGED <<schema, now, req, wd_node>>

\* The caller makes its next call on the same set: with the same candidate
\* again or with one of two others.
AllocateAgain ==
    /\ last.status = "done"
    /\ last.req.op = "allocate"
    /\ Len(last.given) < MaxCalls
    /\ \E s \in {last.req.candidate, <<"a">>, Cmu \o <<"a", "\n">>} :
          last' = Called([op |-> "allocate", candidate |-> s,
                          given |-> last.given])
    /\ UNCHANGED <<schema, now, req, wd_node, all_ids>>

\* util.sub_id(obj, target, replacement) returns or raises.
Rewrite ==
    /\ last.status = "called"
    /\ last.req.op = "sub_id"
    /\ \E out \in {sub_id_json(last.req.obj, last.req.target,
                                last.req.replacement)} :
          last' = [req |-> last.req, status |-> "done", raised |-> out.exc.kind,
                   obj |-> out.obj]
    /\ UNCHANGED <<schema, now, req, wd_node, all_ids>>

\* util.validate_type(sdf.Document, data) returns or raises.
Validate ==
    /\ last.status = "called"
    /\ last.req.op = "validate_type"
    /\ \E out \in {validate_type(last.req.data)} :
          last' = [req |-> last.req, status |-> "done", raised |-> out.exc.kind,
                   returned |-> out.data]
    /\ UNCHANGED <<schema, now, req, wd_node, all_ids>>

\* util.fix_atIds(lib, use_uuids) returns.
Renumber ==
    /\ last.status = "called"
    /\ last.req.op = "fix_atIds"
    /\ \E out \in {fix_atIds(last.req.lib, last.req.use_uuids, 0)} :
          last' = [req |-> last.req, status |-> "done", lib |-> out.lib,
                   counter |-> out.counter]
    /\ UNCHANGED <<schema, now, req, wd_node, all_ids>>

\* _fix_unused_args(lib) returns: the last step of package_schemas that
\* touches the participants.
Prune ==
    /\ last.status = "called"
    /\ last.req.op = "fix_unused_args"
    /\ \E out \in {fix_unused_args(last.req.lib)} :
          last' = [req |-> last.req, status |-> "done", lib |-> out]
    /\ UNCHANGED <<schema, now, req, wd_node, all_ids>>

\* _fix_children_gates(lib) returns: the one step of package_schemas that
\* touches the keys children and children_gate of the library it returns.
Gate ==
    /\ last.status = "called"
    /\ last.req.op = "fix_children_gates"
    /\ \E out \in {fix_children_gates(last.req.lib)} :
          last' = [req |-> last.req, status |-> "done", lib |-> out]
    /\ UNCHANGED <<schema, now, req, wd_node, all_ids>>

NextUtil ==
    \/ Gate
    \/ Prune
    \/ Validate
    \/ Renumber
    \/ Cleanup
    \/ Allocate
    \/ Rewrite
    \/ AllocateAgain

SpecUtil == InitUtil /\ [][NextUtil]_vars

(***************************************************************************)
(* Properties.  `last` describes the request served by the latest step,    *)
(* and the clock has not advanced since: now is the time it was served.    *)
(***************************************************************************)

\* C1, first half: while a lease of A is valid, an acquire by another
\* holder B fails with Conflict and leaves holder and timestamp as stored.
C1_AcquireRefused ==
    /\ last.req.op = "lock_put"
    /\ HeldByOther(last.before, last.req.client, now)
    => /\ last.status = "HTTPConflict"
       /\ LeaseOf(schema, last.req.id) = last.before

\* C1, second half: of two acquires of one document without a valid lease
\* that wait at the same time and are served within LOCK_LIFETIME of each
\* other, the one served first succeeds and the other gets Conflict.
C1_OneWinner ==
    \A c1, c2 \in Clients :
        /\ c1 # c2
        /\ req[c1].phase = "done" /\ req[c2].phase = "done"
        /\ req[c1].r.op = "lock_put" /\ req[c2].r.op = "lock_put"
        /\ req[c1].r.id = req[c2].r.id
        /\ req[c1].free /\ req[c1].raced
        /\ req[c2].at - req[c1].at <= LOCK_LIFETIME
        => /\ req[c1].status = "201"
           /\ req[c2].status = "HTTPConflict"

\* C1: lease mutual exclusion between two distinct holders.
C1_LeaseMutualExclusion == C1_AcquireRefused /\ C1_OneWinner

\* Both clients' acquires of a waited together; A was served first and won,
\* B was served next, at the last second of A's lease, and was refused.
C1_Witness ==
    /\ req["A"].phase = "done" /\ req["B"].phase = "done"
    /\ req["A"].r = LockRequest("lock_put", IdA, "A")
    /\ req["B"].r = LockRequest("lock_put", IdA, "B")
    /\ req["A"].free /\ req["A"].raced
    /\ req["A"].status = "201" /\ req["B"].status = "HTTPConflict"
    /\ req["B"].at - req["A"].at = LOCK_LIFETIME
    /\ last.req = req["B"].r
    /\ last.before = Lease("A", req["A"].at)
    /\ LeaseOf(schema, IdA) = Lease("A", req["A"].at)

\* The request served by the latest step is op on a stored document.
LastOn(op) == last.req.op = op /\ last.before # NULL

\* An expired lease of a client other than c.
ExpiredOfOther(lease, c, t) ==
    /\ lease # NULL
    /\ lease.lock_ts # NULL
    /\ lease.holder_id # Some(c)
    /\ t - lease.lock_ts[1] > LOCK_LIFETIME

\* C2, the take-over: an acquire by B later than t + LOCK_LIFETIME, where t
\* is when A acquired, succeeds and makes B the holder.
C2_TakeOver ==
    /\ LastOn("lock_put")
    /\ ExpiredOfOther(last.before, last.req.client, now)
    => /\ last.status = "201"
       /\ LeaseOf(schema, last.req.id) = Lease(last.req.client, now)

\* C2, the stale writer: a write by a client while another client's lease
\* on the document is valid fails with Conflict and changes nothing.
C2_StaleWriteRefused ==
    /\ last'.req.op = "schema_put"
    /\ HeldByOther(LeaseOf(schema, last'.req.id), last'.req.client, now)
    => /\ last'.status = "HTTPConflict"
       /\ schema' = schema

\* C2: after LOCK_LIFETIME has elapsed B's acquire takes the lease over, and
\* A's writes under its stale lease are refused while B's lease is valid.
C2_StaleLeaseReclaimed == []C2_TakeOver /\ [][C2_StaleWriteRefused]_vars

\* B has just taken over the lease A acquired at 0, one second after it expired.
C2_Witness ==
    /\ last.req = LockRequest("lock_put", IdA, "B")
    /\ last.before = Lease("A", 0)
    /\ now = LOCK_LIFETIME + 1
    /\ last.status = "201"
    /\ LeaseOf(schema, IdA) = Lease("B", now)

\* C4 as claimed: releaseLock on an existing document always returns Ok and
\* leaves the document without holder and timestamp.
C4_ReleaseNeverFails ==
    LastOn("lock_delete")
    => /\ last.status = "200"
       /\ LeaseOf(schema, last.req.id) = NoLease

\* C4 as amended: releaseLock on an existing document fails with Conflict,
\* leaving holder and timestamp as stored, when a different holder has a
\* valid lease; in every other case (no lease, own lease valid or expired,
\* another holder's expired lease) it returns Ok and clears both.
C4_ReleaseUnlessHeldByOther ==
    LastOn("lock_delete")
    => IF HeldByOther(last.before, last.req.client, now)
       THEN /\ last.status = "HTTPConflict"
            /\ LeaseOf(schema, last.req.id) = last.before
       ELSE /\ last.status = "200"
            /\ LeaseOf(schema, last.req.id) = NoLease

\* B has released the expired lease of A.
C4_Witness ==
    /\ last.req = LockRequest("lock_delete", IdA, "B")
    /\ last.before = Lease("A", 0)
    /\ now = LOCK_LIFETIME + 1
    /\ last.status = "200"
    /\ LeaseOf(schema, IdA) = NoLease

\* C5: delete removes the document if the stored holder is the requester or
\* no lease on it is valid (none taken, released, or older than
\* LOCK_LIFETIME); otherwise it fails with Conflict and the document stays.
C5_DeleteUnlessValidLeaseOfOther ==
    LastOn("schema_delete")
    => IF HeldByOther(last.before, last.req.client, now)
       THEN /\ last.status = "HTTPConflict"
            /\ LeaseOf(schema, last.req.id) = last.before
       ELSE /\ last.status = "200"
            /\ LeaseOf(schema, last.req.id) = NULL

\* C8: acquire on a document with no lease, an expired lease of anyone, or a
\* lease of the same holder succeeds and stores the holder and the current
\* time, so a re-acquire extends the lease.
C8_AcquireSucceeds ==
    /\ LastOn("lock_put")
    /\ \/ last.before = NoLease
       \/ ~ValidAt(last.before, now)
       \/ last.before.holder_id = Some(last.req.client)
    => /\ last.status = "201"
       /\ LeaseOf(schema, last.req.id) = Lease(last.req.client, now)

\* A re-acquired, at the last second of its lease, the lease it took at 0.
C8_Witness ==
    /\ last.req = LockRequest("lock_put", IdA, "A")
    /\ last.before = Lease("A", 0)
    /\ now = LOCK_LIFETIME
    /\ last.status = "201"
    /\ LeaseOf(schema, IdA) = Lease("A", LOCK_LIFETIME)

(***************************************************************************)
(* Writes.  The properties below are about one step: the unprimed table is *)
(* the one the request found, the primed one what it left, and last' names *)
(* the request and its outcome.                                            *)
(***************************************************************************)

\* The step serves a write of a stored document.
WritesStored == last'.req.op = "schema_put" /\ LeaseOf(schema, last'.req.id) # NULL

\* The write changes the identifier of the document.
Renames(r) == r.sdf.atId # r.id

\* The rows (by position) of the non-quarantined documents other than old
\* with an event whose wd_node is old.
Referrers(tbl, old) ==
    {i \in 1..Len(tbl) :
        /\ tbl[i].quarantined = 0
        /\ tbl[i].atId # old
        /\ \E k \in 1..Len(tbl[i].data.events) : tbl[i].data.events[k].wd_node = old}

\* The referrers on which a client other than c has a valid lease.
Blocked(tbl, old, c, t) ==
    {i \in Referrers(tbl, old) :
        HeldByOther([holder_id |-> tbl[i].holder_id, lock_ts |-> tbl[i].lock_ts], c, t)}

\* The document stored under id is doc and c holds its lease, taken at t.
StoredUnderLease(tbl, doc, c, t) ==
    /\ LeaseOf(tbl, doc.atId) = Lease(c, t)
    /\ SelectById(tbl, doc.atId)[1].data = doc

RenamesStored == WritesStored /\ Renames(last'.req)

\* Event e with its reference to old replaced by new.
RePointed(e, old, new) ==
    IF e.wd_node = old
    THEN [e EXCEPT !.wd_node = new, !.wd_label = new[Len(new)]]
    ELSE e

\* Document d2 is document d with every event that referred to old
\* re-pointed to new, and nothing else changed.
RePointedDocument(d, d2, old, new) ==
    /\ d2 = [d EXCEPT !.events = d2.events]
    /\ Len(d2.events) = Len(d.events)
    /\ \A k \in 1..Len(d.events) : d2.events[k] = RePointed(d.events[k], old, new)

\* The rename of old by the write r of client c has committed completely:
\* the target is stored under the new identifier with the new content, every
\* referrer is re-pointed, and every other row is as it was.
Committed(tbl, tbl2, r) ==
    /\ Len(tbl2) = Len(tbl)
    /\ \A i \in 1..Len(tbl) :
          IF tbl[i].atId = r.id
          THEN tbl2[i].atId = r.sdf.atId /\ tbl2[i].data = r.sdf
          ELSE IF i \in Referrers(tbl, r.id)
          THEN /\ tbl2[i].atId = tbl[i].atId
               /\ RePointedDocument(tbl[i].data, tbl2[i].data, r.id, r.sdf.atId)
          ELSE tbl2[i] = tbl[i]

\* No request can observe a rename that is half done: in every committed
\* state each reference of a non-quarantined document to another document
\* resolves to exactly one stored row.
NoPartialRename ==
    \A i \in 1..Len(schema) :
        schema[i].quarantined = 0
        => \A k \in 1..Len(schema[i].data.events) :
              LET node == schema[i].data.events[k].wd_node
              IN  node \notin {NULL, WdQ} => RowCount(schema, node) = 1

\* C3: a rename either commits completely or, when the lease of a referrer
\* cannot be obtained, fails with Conflict; whenever it fails, every row is
\* left as it was: content, identifier and lease, also the leases the
\* transaction had already taken on the target and on earlier referrers;
\* and no committed state shows a rename half done.
C3_RenameAtomic ==
    /\ []NoPartialRename
    /\ [][RenamesStored
          => /\ Blocked(schema, last'.req.id, last'.req.client, now) # {}
                => last'.status = "HTTPConflict"
             /\ last'.status # "200" => schema' = schema
             /\ last'.status = "200" => Committed(schema, schema', last'.req)]_vars

\* A's rename of a found the first referrer b free and the second referrer
\* c under B's valid lease: it failed, and neither a nor b carries a lease.
C3_Witness ==
    /\ last.req.op = "schema_put" /\ last.req.client = "A"
    /\ last.req.id = IdA /\ last.req.sdf.atId = IdNew
    /\ last.status = "HTTPConflict"
    /\ Len(schema) = 3
    /\ schema[1].atId = IdA /\ schema[2].atId = IdB /\ schema[3].atId = IdC
    /\ schema[3].quarantined = 0
    /\ LeaseOf(schema, IdC) = Lease("B", now)
    /\ LeaseOf(schema, IdB) = NoLease
    /\ LeaseOf(schema, IdA) = NoLease
    /\ schema[1].data.rev # last.req.sdf.rev

\* C9: after a successful rename from old to new, in every other
\* non-quarantined document the events that referred to old refer to new
\* and are labelled with the last segment of new, nothing else in them has
\* changed, the writer holds the lease on each referrer, and none of them
\* has an event that refers to old.
C9_ReferrersRePointed ==
    [][RenamesStored /\ last'.status = "200"
       => \A i \in 1..Len(schema) :
             /\ schema[i].atId # last'.req.id
             /\ schema[i].quarantined = 0
             => /\ RePointedDocument(schema[i].data, schema'[i].data,
                                     last'.req.id, last'.req.sdf.atId)
                /\ \A k \in 1..Len(schema'[i].data.events) :
                      schema'[i].data.events[k].wd_node # last'.req.id
                /\ i \in Referrers(schema, last'.req.id)
                   => /\ schema'[i].holder_id = Some(last'.req.client)
                      /\ schema'[i].lock_ts = Some(now)]_vars

\* A has renamed a to cmu:Schema/u1/a_copy: b and c refer to the new
\* identifier, are labelled a_copy, and are leased by A.
C9_Witness ==
    /\ last.req.op = "schema_put" /\ last.req.client = "A"
    /\ last.req.id = IdA /\ last.req.sdf.atId = IdNew
    /\ last.status = "200"
    /\ LeaseOf(schema, IdA) = NULL
    /\ \A id \in {IdB, IdC} :
          /\ LeaseOf(schema, id) = Lease("A", now)
          /\ \E k \in 1..2 :
                /\ SelectById(schema, id)[1].data.events[k].wd_node = IdNew
                /\ SelectById(schema, id)[1].data.events[k].wd_label = "a_copy"

\* The first row, in scan order, of a set of rows.
FirstOf(rows) == CHOOSE i \in rows : \A j \in rows : i <= j

\* C10: when the target itself can be locked and the lease of a referrer
\* cannot, the rename fails with Conflict and the description names the
\* first such referrer in scan order.
C10_NamesFirstBlockedReferrer ==
    [][/\ RenamesStored
       /\ SelectById(schema, last'.req.id)[1].data.conforms
       /\ ~HeldByOther(LeaseOf(schema, last'.req.id), last'.req.client, now)
       /\ Blocked(schema, last'.req.id, last'.req.client, now) # {}
       => /\ last'.status = "HTTPConflict"
          /\ last'.names =
                schema[FirstOf(Blocked(schema, last'.req.id,
                                       last'.req.client, now))].atId
          /\ last'.names # last'.req.id]_vars

\* Both referrers are under B's valid lease, c is scanned before b, and
\* A's rename of a was refused naming c.
C10_Witness ==
    /\ last.req.op = "schema_put" /\ last.req.client = "A"
    /\ last.req.id = IdA /\ last.req.sdf.atId = IdNew
    /\ last.status = "HTTPConflict"
    /\ last.names = IdC
    /\ Len(schema) = 3
    /\ schema[1].atId = IdC /\ schema[2].atId = IdB
    /\ HeldByOther(LeaseOf(schema, IdC), "A", now)
    /\ HeldByOther(LeaseOf(schema, IdB), "A", now)

WritesValid ==
    /\ WritesStored
    /\ last'.req.sdf.conforms
    /\ SelectById(schema, last'.req.id)[1].data.conforms

ActsOn(id) ==
    /\ last'.req.op \in {"lock_put", "lock_delete", "schema_put", "schema_delete"}
    /\ last'.status \in {"200", "201"}
    /\ \/ last'.req.id = id
       \/ last'.req.op = "schema_put" /\ last'.req.sdf.atId = id

\* C11: the passage of time alone never changes a stored lease: when the
\* clock advances the table stays as it is, the lease of a document changes
\* only in a step that serves an acquire, release, write or delete on it, and
\* expiry only decides whether another client's acquire is allowed: it is
\* refused exactly while now - lock_ts <= LOCK_LIFETIME.
C11_TimeAloneKeepsLease ==
    [][/\ now' # now => schema' = schema
       /\ \A id \in LeaseIds :
             LeaseOf(schema', id) # LeaseOf(schema, id) => ActsOn(id)
       /\ /\ last'.req.op = "lock_put"
          /\ LeaseOf(schema, last'.req.id) # NULL
          /\ LeaseOf(schema, last'.req.id).lock_ts # NULL
          /\ LeaseOf(schema, last'.req.id).holder_id # Some(last'.req.client)
          => (last'.status = "HTTPConflict"
              <=> now - LeaseOf(schema, last'.req.id).lock_ts[1] <= LOCK_LIFETIME)]_vars

\* The clock has passed the end of A's lease and no request has been served
\* since: the expired lease is still recorded.
C11_Witness ==
    /\ last = NoTxn
    /\ now = LOCK_LIFETIME + 1
    /\ LeaseOf(schema, IdA) = Lease("A", 0)
    /\ ~ValidAt(LeaseOf(schema, IdA), now)

(***************************************************************************)
(* The store: start-up validation, reads, and the requests that are        *)
(* refused.                                                                *)
(***************************************************************************)

\* The text in the data column is a JSON document that conforms to the
\* shape of sdf.Document.
Conforming(data) == data \notin {NotJson, JsonArray} /\ data.conforms

\* Row r2 is row r with the quarantine flag set and a non-empty note, and
\* nothing else changed.
Flagged(r, r2) ==
    /\ r2.quarantined = 1
    /\ r2.note # NULL
    /\ r2.note[1] # ""
    /\ r2 = [r EXCEPT !.quarantined = 1, !.note = r2.note]

\* C12: after the start-up validation pass every row whose data is no JSON or
\* does not conform is flagged quarantined with a non-empty note, every
\* conforming row that was not quarantined and every row that was already
\* quarantined is as it was, and no row has been deleted.
C12_StartupQuarantines ==
    [][last'.req.op = "init_db"
       => /\ Len(schema') = Len(schema)
          /\ \A i \in 1..Len(schema) :
                IF schema[i].quarantined = 1 \/ Conforming(schema[i].data)
                THEN schema'[i] = schema[i]
                ELSE Flagged(schema[i], schema'[i])]_vars
\* C14: get_schema with validation never returns the content of a
\* quarantined document, get_schema without validation returns the stored
\* content of every stored document, and both fail with NotFound when no
\* document has the identifier.
C14_ReadRules ==
    [][last'.req.op = "get_schema"
       => LET rows == SelectById(schema, last'.req.id)
          IN  IF rows = <<>>
              THEN last'.status = "HTTPNotFound" /\ last'.returned = NULL
              ELSE IF last'.req.no_validate
              THEN last'.returned = Some(rows[1].data)
              ELSE rows[1].quarantined = 1 => last'.returned = NULL]_vars

\* C15: a write whose content fails validation is answered with the
\* validation error (400 Bad Request) and stores nothing.
C15_InvalidWriteRejected ==
    [][last'.req.op = "schema_put" /\ ~Conforming(last'.req.sdf)
       => /\ last'.status = "HTTPBadRequest"
          /\ schema' = schema]_vars

\* C16: a write to an identifier that is stored, with valid content and the
\* overwrite flag unset, is answered with Conflict and changes nothing,
\* whatever the state of the stored row.
C16_NoOverwriteConflict ==
    [][/\ last'.req.op = "schema_put"
       /\ Conforming(last'.req.sdf)
       /\ ~last'.req.overwrite
       /\ SelectById(schema, last'.req.id) # <<>>
       => /\ last'.status = "HTTPConflict"
          /\ schema' = schema]_vars

\* C17: creating a blank schema succeeds for every name and stores a new
\* document, also when a stored schema has that name.
C17_CreateBlankAlwaysSucceeds ==
    [][last'.req.op = "schemas_post"
       => /\ last'.status = "201"
          /\ Len(schema') = Len(schema) + 1
          /\ schema'[Len(schema')].data = create_blank_schema(last'.req.name)]_vars

Composes(id) ==
    /\ last.req.op = "package_schemas"
    /\ \E k \in 1..Len(last.req.schema_ids) : last.req.schema_ids[k] = id

\* The composition served last could get every label: Wikidata was in reach
\* or the labels were cached.
LabelsInReach ==
    last.req.op = "package_schemas"
    /\ (last.req.online \/ WikiItems \subseteq last.cached)

\* The objects of the library lib that were taken from the document id.
ElementsFrom(lib, id) ==
    {lib.events[k] : k \in {j \in 1..Len(lib.events) : lib.events[j].tag = id}}
    \cup {lib.entities[k] :
             k \in {j \in 1..Len(lib.entities) : lib.entities[j].tag = id}}

\* C13: a document flagged quarantined, also one whose stored content is not
\* valid JSON, is never part of the input of compose: a composition with its
\* identifier among the ids completes, the library has none of its elements,
\* and the digest is the one of the composition over the store without it.
C13_QuarantinedNotComposed ==
    \A k \in 1..Len(schema) :
        (schema[k].quarantined = 1 /\ Composes(schema[k].atId) /\ LabelsInReach)
        => /\ last.raised = "none"
           /\ last.returned # NULL
           /\ ElementsFrom(last.returned[1], schema[k].atId) = {}
           /\ LET without == SelectSeq(schema, LAMBDA r : r.atId # schema[k].atId)
                  other   == package_schemas(without, last.cached,
                                             last.req.online, last.req.name,
                                             last.req.schema_ids)
              IN  /\ other.exc = NoExc
                  /\ last.returned[1].inputDigest = other.library[1].inputDigest

\* The events of lib with the name n.
EventsNamed(lib, n) == SelectSeq(lib.events, LAMBDA e : e.name = n)

\* The entities of lib with the name n.
EntitiesNamed(lib, n) == SelectSeq(lib.entities, LAMBDA e : e.name = n)

\* The library has the subschema SubOne in the place of the placeholder of
\* T: no event refers to the subschema, its events r and k and its entity n
\* are there and its arguments are not, the child of h is r, and the
\* participants of r and k that named the argument arg1 name the entity x.
InlinedOne(lib) ==
    /\ \A k \in 1..Len(lib.events) :
          lib.events[k].wd_node # IdS /\ lib.events[k].name # "p"
    /\ Len(EventsNamed(lib, "r")) = 1 /\ Len(EventsNamed(lib, "k")) = 1
    /\ Len(EntitiesNamed(lib, "n")) = 1 /\ Len(EntitiesNamed(lib, "x")) = 1
    /\ EntitiesNamed(lib, "arg1") = <<>> /\ EntitiesNamed(lib, "arg2") = <<>>
    /\ Len(EventsNamed(lib, "h")) = 1
    /\ EventsNamed(lib, "h")[1].children = <<EventsNamed(lib, "r")[1].atId>>
    /\ EventsNamed(lib, "r")[1].children = <<EventsNamed(lib, "k")[1].atId>>
    /\ \A n \in {"r", "k"} :
          \E j \in 1..Len(EventsNamed(lib, n)[1].participants) :
             LET q == EventsNamed(lib, n)[1].participants[j]
             IN  q.roleName = "A0" /\ q.entity = EntitiesNamed(lib, "x")[1].atId

\* T and the one-rooted subschema it refers to are stored and valid.
RefersToOneRoot ==
    /\ Len(schema) = 2
    /\ schema[1].data \in {DocT(f) : f \in BOOLEAN}
    /\ schema[2].data = SubOne

\* C19: an event of the library that refers to an available, valid
\* subschema with exactly one root is replaced by the subschema: after the
\* composition the placeholder is absent, the events and the non-argument
\* entities of the subschema are present, what pointed to the placeholder
\* points to the root, and what pointed to a bound argument points to the
\* entity the participant of the placeholder supplied.
C19_SubschemaInlined ==
    (RefersToOneRoot /\ Composes(IdT) /\ LabelsInReach)
    => /\ last.raised = "none"
       /\ last.returned # NULL
       /\ InlinedOne(last.returned[1])

\* T and a subschema without a root or with two roots are stored and valid.
RefersToNotOneRoot ==
    /\ Len(schema) = 2
    /\ schema[1].data \in {DocT(f) : f \in BOOLEAN}
    /\ schema[2].data \in {SubTwoRoots, SubCycle, SubNoEvents}

\* C20: when the subschema inlined has no root or more than one, the
\* composition aborts with the structural error, which names the subschema,
\* and returns no library.
C20_NotOneRootAborts ==
    (RefersToNotOneRoot /\ Composes(IdT))
    => /\ last.raised = "ValueError"
       /\ last.names = IdS
       /\ last.returned = NULL

\* The identifiers in a list.
IdSet(ids) == {ids[k] : k \in 1..Len(ids)}

RECURSIVE ValidFetched(_, _, _)
\* The documents of tbl that are named in ids and conform, in the order of
\* their identifiers, from the k-th identifier on.
ValidFetched(tbl, ids, k) ==
    IF k > Len(IdOrder)
    THEN <<>>
    ELSE LET rows == SelectSeq(tbl, LAMBDA r : /\ r.atId = IdOrder[k]
                                              /\ r.atId \in IdSet(ids)
                                              /\ Conforming(r.data))
         IN  [j \in 1..Len(rows) |-> rows[j].data] \o ValidFetched(tbl, ids, k + 1)

\* C21: two compositions one after the other with the same name and the
\* same set of identifiers, in any order, return libraries with the same
\* identifier and the same inputDigest; the identifier is the name followed
\* by the digest, and the digest is the one of the valid documents fetched,
\* taken in the order of their identifiers.
C21_DigestIdempotent ==
    [][(/\ last'.req.op = "package_schemas"
        /\ last'.returned # NULL)
       => /\ last'.returned[1].inputDigest
               = InputDigest(ValidFetched(schema, last'.req.schema_ids, 1))
          /\ last'.returned[1].atId
               = <<"cmu:Schema", LibraryName(last'.req.name,
                                             last'.returned[1].inputDigest)>>
          /\ (/\ last.req.op = "package_schemas"
              /\ last.returned # NULL
              /\ last.req.name = last'.req.name
              /\ IdSet(last.req.schema_ids) = IdSet(last'.req.schema_ids))
             => /\ last'.returned[1].atId = last.returned[1].atId
                /\ last'.returned[1].inputDigest = last.returned[1].inputDigest]_vars

\* Two valid documents were composed, the identifiers given against their
\* order, and the digest is not the one of either document alone.
C21_Witness ==
    /\ last.req.op = "package_schemas"
    /\ last.req.schema_ids = <<IdT, IdS>>
    /\ last.returned # NULL
    /\ Len(ValidFetched(schema, last.req.schema_ids, 1)) = 2
    /\ last.returned[1].inputDigest # InputDigest(<<schema[1].data>>)
    /\ last.returned[1].inputDigest # InputDigest(<<schema[2].data>>)

\* C22: a composition over ids of which some name stored documents that
\* fail validation, or documents that are not stored, does not fail for that
\* reason: its outcome is the one of the composition over the store without
\* the documents that do not conform.
C22_InvalidSkipped ==
    last.req.op = "package_schemas"
    => LET conforming == SelectSeq(schema, LAMBDA r : Conforming(r.data))
           other      == package_schemas(conforming, last.cached,
                                         last.req.online, last.req.name,
                                         last.req.schema_ids)
       IN  /\ last.raised = other.exc.kind
           /\ last.returned = other.library

\* C29: a composition terminates, with a library or with an error, for every
\* store and every list of identifiers, also when the references to
\* subschemas form a cycle.
C29_ComposeTerminates ==
    last.req.op = "package_schemas" => last.raised # "NeverReturns"

\* The library with the labels of its events left out.
Unlabelled(lib) ==
    [lib EXCEPT !.events = [k \in 1..Len(lib.events) |->
                               [lib.events[k] EXCEPT !.wd_label = ""]]]

\* C26: when Wikidata is out of reach a composition still returns the
\* library it returns otherwise, without the labels it could not get, and
\* with the labels that are cached; the look-up of a single item reports the
\* failure as an error of its own (HTTPServiceUnavailable), not as the empty
\* result of an item that was not found.
C26_OfflineDegrades ==
    /\ (last.req.op = "package_schemas" /\ ~last.req.online)
       => LET reached == package_schemas(schema, last.cached, TRUE,
                                         last.req.name, last.req.schema_ids)
          IN  /\ last.raised = reached.exc.kind
              /\ reached.library # NULL
                 => /\ last.returned # NULL
                    /\ Unlabelled(last.returned[1]) = Unlabelled(reached.library[1])
                    /\ \A k \in 1..Len(last.returned[1].events) :
                          LET e == last.returned[1].events[k]
                          IN  e.wd_label =
                                 IF IsWiki(e.wd_node)
                                    /\ WikiItem(e.wd_node) \in last.cached
                                 THEN WikiLabel(WikiItem(e.wd_node)) ELSE ""
    /\ (/\ last.req.op = "wikidata_get"
        /\ ~last.req.online
        /\ last.req.item_id \notin last.cached)
       => last.status = "HTTPServiceUnavailable" /\ last.returned = NULL

(***************************************************************************)
(* C28.  While a client holds a valid lease on a document, no request of   *)
(* another client (acquire, release, write, tag update, delete, create,    *)
(* a rename of a document it refers to, a create or rename onto its        *)
(* identifier) changes the row of that document: its content, identifier,  *)
(* holder, timestamp and existence stay as they were.                      *)
(***************************************************************************)
C28_LeasedRowUntouchedByOthers ==
    [][\A id \in ProtectIds :
          (/\ last'.req.op # "none"
           /\ HeldByOther(LeaseOf(schema, id), last'.req.client, now))
          => SelectById(schema', id) = SelectById(schema, id)]_vars

\* Another client's tag update of a document under a valid lease was
\* refused and the document is still stored.
C28_Witness ==
    /\ last.req.op = "tags_patch"
    /\ last.req.id = IdB
    /\ HeldByOther(last.before, last.req.client, now)
    /\ last.status = "HTTPConflict"
    /\ SelectById(schema, IdB) # <<>>

(***************************************************************************)
(* C30.  The cleanup of a participant list ends for every position of the  *)
(* placeholder event, the first included, and what it leaves are the       *)
(* participants whose entity is no unbound argument, in their order.       *)
(***************************************************************************)
C30_CleanupExact ==
    (last.req.op = "cleanup" /\ last.status = "done")
    => /\ last.ends
       /\ last.ps = SelectSeq(last.req.ps,
                              LAMBDA q : q.entity \notin last.req.unused_args)

\* The same with the placeholder at the second position of the library,
\* where the loop advances by one.
C30_CleanupExactAtOne ==
    (last.req.op = "cleanup" /\ last.status = "done" /\ last.req.i = 1)
    => /\ last.ends
       /\ last.ps = SelectSeq(last.req.ps,
                              LAMBDA q : q.entity \notin last.req.unused_args)

(***************************************************************************)
(* C23.  For a non-empty candidate and any set of identifiers, what        *)
(* ensure_valid_cmu_id returns is well-formed (cmu: followed by allowed    *)
(* characters, not ending in '/'), was not in the set before the call and  *)
(* is in it afterwards; a well-formed candidate that was not in the set is *)
(* returned unchanged; and what a sequence of calls on one set returns is  *)
(* pairwise distinct.                                                      *)
(***************************************************************************)
WellFormed(s) == FullMatch(s)

C23_AllocateValidUnique ==
    (last.req.op = "allocate" /\ last.status = "done")
    => /\ WellFormed(last.returned)
       /\ last.returned \notin last.before
       /\ last.returned \in all_ids
       /\ (WellFormed(last.req.candidate) /\ last.req.candidate \notin last.before)
          => last.returned = last.req.candidate
       /\ \A j, k \in 1..Len(last.given) : j # k => last.given[j] # last.given[k]

\* The same without the requirement that the result is well-formed.
C23_AllocateUnique ==
    (last.req.op = "allocate" /\ last.status = "done")
    => /\ last.returned \notin last.before
       /\ last.returned \in all_ids
       /\ (WellFormed(last.req.candidate) /\ last.req.candidate \notin last.before)
          => last.returned = last.req.candidate
       /\ \A j, k \in 1..Len(last.given) : j # k => last.given[j] # last.given[k]

RECURSIVE Holds(_, _, _)
\* Some value of obj outside an "@id" key is the string s, k being the key
\* that holds obj.
Holds(k, obj, s) ==
    IF obj.t = "str" THEN k # "@id" /\ obj.s = s
    ELSE IF obj.t = "list"
    THEN \E j \in 1..Len(obj.items) : Holds("", obj.items[j], s)
    ELSE \E j \in 1..Len(obj.entries) :
            Holds(obj.entries[j].key, obj.entries[j].val, s)

RECURSIVE SameBut(_, _, _, _)
\* after is before with nothing changed but strings equal to old outside an
\* "@id" key: the same keys in the same order, the same lengths, the same
\* "@id" values and the same strings different from old.
SameBut(k, before, after, old) ==
    IF before.t = "str"
    THEN after.t = "str" /\ (k = "@id" \/ before.s # old => after.s = before.s)
    ELSE IF before.t = "list"
    THEN /\ after.t = "list"
         /\ Len(after.items) = Len(before.items)
         /\ \A j \in 1..Len(before.items) :
               SameBut("", before.items[j], after.items[j], old)
    ELSE /\ after.t = "dict"
         /\ Len(after.entries) = Len(before.entries)
         /\ \A j \in 1..Len(before.entries) :
               /\ after.entries[j].key = before.entries[j].key
               /\ SameBut(before.entries[j].key, before.entries[j].val,
                          after.entries[j].val, old)

(***************************************************************************)
(* C25.  After sub_id(doc, old, new) with old # new, no field value and no *)
(* list element of doc at any depth is old, except under an "@id" key;     *)
(* every "@id" value, every key and every value other than old is as it    *)
(* was.                                                                    *)
(***************************************************************************)
C25_RewriteFrame ==
    (/\ last.req.op = "sub_id"
     /\ last.status = "done"
     /\ last.req.obj.t = "dict")
    => /\ last.raised = "none"
       /\ ~Holds("", last.obj, last.req.target)
       /\ SameBut("", last.req.obj, last.obj, last.req.target)

\* A document that held old under its "@id", in a list and in an object of a
\* list has been rewritten.
C25_Witness ==
    /\ last.req.op = "sub_id"
    /\ last.status = "done"
    /\ last.req.obj.t = "dict"
    /\ last.req.obj.entries[1].val = JStr(OldId)
    /\ last.req.obj.entries[2].val = JList(<<JStr("x"), JStr(OldId)>>)
    /\ Len(last.req.obj.entries[3].val.items) = 1
    /\ Holds("", last.req.obj.entries[3].val, OldId)
    /\ last.obj # last.req.obj

(***************************************************************************)
(* C27.  validate_type returns the candidate as it is when it conforms to  *)
(* the declared shape and raises ValidationError when it does not; it      *)
(* never returns a candidate that does not conform.                        *)
(***************************************************************************)
C27_ValidateOrValidationError ==
    (last.req.op = "validate_type" /\ last.status = "done")
    => IF Conforming(last.req.data)
       THEN last.raised = "none" /\ last.returned = last.req.data
       ELSE last.raised = "ValidationError" /\ last.returned = NULL

\* The same for the candidates that are JSON objects.
C27_ObjectsValidated ==
    (/\ last.req.op = "validate_type"
     /\ last.status = "done"
     /\ last.req.data # JsonArray)
    => IF Conforming(last.req.data)
       THEN last.raised = "none" /\ last.returned = last.req.data
       ELSE last.raised = "ValidationError" /\ last.returned = NULL

\* The @id's of the entities, events, relations and participants of a
\* document, one entry for each element.
ElementIds(lib) ==
    [k \in 1..Len(lib.entities) |-> lib.entities[k].atId]
    \o [k \in 1..Len(lib.events) |-> lib.events[k].atId]
    \o [k \in 1..Len(RelationsOf(lib)) |-> lib.relations[k].atId]
    \o [k \in 1..Len(lib.events[1].participants) |->
           lib.events[1].participants[k].atId]

\* The values of the fields that refer to elements: the entity of a
\* participant, the children of an event, the ends of a relation.
References(lib) ==
    UNION {{lib.events[k].participants[j].entity :
               j \in 1..Len(lib.events[k].participants)}
           \cup {lib.events[k].children[j] : j \in 1..Len(lib.events[k].children)} :
           k \in 1..Len(lib.events)}
    \cup UNION {{lib.relations[k].relationSubject, lib.relations[k].relationObject} :
                k \in 1..Len(RelationsOf(lib))}

Resolved(lib) ==
    References(lib) \subseteq {ElementIds(lib)[k] : k \in 1..Len(ElementIds(lib))}

(***************************************************************************)
(* C24.  After fix_atIds, with uuids or with the counter, on a document    *)
(* whose references all resolve: the @id's of its entities, events,        *)
(* relations and participants are pairwise distinct, and every field that  *)
(* referred to an element holds the @id of an element of the document.     *)
(***************************************************************************)
C24_RenumberedUniqueResolved ==
    (/\ last.req.op = "fix_atIds"
     /\ last.status = "done"
     /\ Resolved(last.req.lib))
    => /\ \A j, k \in 1..Len(ElementIds(last.lib)) :
             j # k => ElementIds(last.lib)[j] # ElementIds(last.lib)[k]
       /\ Resolved(last.lib)
       /\ Len(ElementIds(last.lib)) = Len(ElementIds(last.req.lib))

\* With the counter, the first entity was given the @id the second one had:
\* the participant that named the first entity now names an element of the
\* document, and two elements that had one @id have two.
C24_Witness ==
    /\ last.req.op = "fix_atIds"
    /\ last.status = "done"
    /\ ~last.req.use_uuids
    /\ Len(last.req.lib.entities) = 2
    /\ last.req.lib.entities[2].atId = last.lib.entities[1].atId
    /\ last.req.lib.entities[1].atId # last.req.lib.entities[2].atId
    /\ last.req.lib.events[1].participants[1].entity = last.req.lib.entities[1].atId
    /\ Len(last.req.lib.events) = 2
    /\ last.req.lib.events[1].atId = last.req.lib.events[2].atId
    /\ Resolved(last.req.lib)

\* Both workers have answered a write of DocNew to the identifier IdNew, the
\* two requests were in flight together, and neither found the identifier
\* stored.
RacedCreates ==
    /\ \A w \in Clients :
          /\ req[w].phase = "done"
          /\ req[w].r.op = "schema_put"
          /\ req[w].r.id = IdNew
          /\ req[w].overlap
          /\ ~req[w].seen.already_exists

\* C31: when two clients concurrently write the same identifier that is not
\* yet stored, exactly one call returns Created (201), the other ends with
\* Conflict, and exactly one document with that identifier is stored.
C31_RacedCreateCreatedAndConflict ==
    RacedCreates =>
        /\ {req[w].status : w \in Clients} = {"201", "HTTPConflict"}
        /\ RowCount(schema, IdNew) = 1

\* What the code does have: one call returns Created, one document is
\* stored, and the other call ends with the store's IntegrityError.
C31_RacedCreateOneStored ==
    RacedCreates =>
        /\ {req[w].status : w \in Clients} = {"201", "IntegrityError"}
        /\ RowCount(schema, IdNew) = 1

\* The step is the transaction of a tag update that answered 200.
TagsCommitted == last'.req.op = "tags_patch" /\ last'.status = "200"

\* The stored document of id.
StoredDoc(tbl, id) == SelectById(tbl, id)[1].data

\* C35: a tag update changes only the tags: the document stored after it is
\* the latest committed content (the document stored just before its
\* transaction) with only the tags replaced, never older content read
\* before a write of another request was committed.
C35_TagUpdateOnLatestContent ==
    [][TagsCommitted =>
          StoredDoc(schema', last'.req.id)
          = [StoredDoc(schema, last'.req.id) EXCEPT !.rev = last'.req.tags]]_vars

\* What the code does have: the document stored is the one the handler read
\* before its transaction, with the tags replaced.
C35_TagUpdateOnContentRead ==
    [][TagsCommitted =>
          \E w \in Clients :
             /\ req[w].phase = "read"
             /\ req'[w].phase = "done"
             /\ StoredDoc(schema', last'.req.id)
                = [req[w].seen.sdf_data EXCEPT !.rev = last'.req.tags]]_vars

\* The last request composed document t alone, with Wikidata reachable,
\* while the subschema s its placeholder event refers to was not stored or
\* did not conform.
ComposedWithoutSubschema ==
    /\ last.req.op = "package_schemas"
    /\ last.req.schema_ids = <<IdT>>
    /\ last.req.online
    /\ SelectById(schema, IdT) # <<>>
    /\ loads_sdf(SelectById(schema, IdT)[1].data).exc = NoExc
    /\ \/ SelectById(schema, IdS) = <<>>
       \/ loads_sdf(SelectById(schema, IdS)[1].data).exc.kind = "ValidationError"

\* C32: if a library event references a subschema that is not stored or is
\* invalid, compose skips that event and still returns a library, in which
\* the event stays with its label set to the trailing segment of its
\* reference.
C32_UnavailableSubschemaSkipped ==
    ComposedWithoutSubschema =>
        /\ last.status = "200"
        /\ last.returned # NULL
        /\ \E k \in 1..Len(last.returned[1].events) :
              /\ last.returned[1].events[k].wd_node = IdS
              /\ last.returned[1].events[k].wd_label = LastSegment(IdS)

\* What the code does have: inject_subschemas skips the event, and the
\* request then fails on the "assert False" of _ensure_wd_values.
C32_UnavailableSubschemaFails ==
    ComposedWithoutSubschema =>
        /\ last.status = "HTTPInternalServerError"
        /\ last.raised = "AssertionError"
        /\ last.returned = NULL

\* Each row's key is the @id of the document in it, and no two rows have
\* the same key.
KeysConsistent(tbl) ==
    /\ \A i \in 1..Len(tbl) : tbl[i].atId = tbl[i].data.atId
    /\ \A i, j \in 1..Len(tbl) : tbl[i].atId = tbl[j].atId => i = j

\* The identifier the request served last would give a document it creates,
\* copies or renames; NULL when the request does none of these.
NewKey(tbl, r) ==
    IF r.op = "schemas_post" THEN Some(r.id)
    ELSE IF r.op = "schema_copy" /\ SelectById(tbl, r.id) # <<>>
    THEN Some(<<"cmu:Schema", r.uuid, LastSegment(r.id) \o "_copy">>)
    ELSE IF r.op = "schema_put" /\ (SelectById(tbl, r.id) = <<>> \/ r.sdf.atId # r.id)
    THEN Some(r.sdf.atId)
    ELSE NULL

\* The step serves a create, a copy or a rename onto an identifier that is
\* stored.
OntoStored ==
    /\ last'.req.op \in {"schemas_post", "schema_copy", "schema_put"}
    /\ NewKey(schema, last'.req) # NULL
    /\ SelectById(schema, NewKey(schema, last'.req)[1]) # <<>>

DistinctIds(lib) ==
    \A j, k \in 1..Len(ElementIds(lib)) :
       j # k => ElementIds(lib)[j] # ElementIds(lib)[k]

\* Every field of `before` that held the @id of an element holds, in
\* `after`, the @id the same element has there (the elements keep their
\* places).
SameTargets(before, after) ==
    LET Keeps(v0, v1) ==
            \A x \in 1..Len(ElementIds(before)) :
               v0 = ElementIds(before)[x] => v1 = ElementIds(after)[x]
    IN  /\ \A k \in 1..Len(before.events) :
              /\ \A j \in 1..Len(before.events[k].participants) :
                    Keeps(before.events[k].participants[j].entity,
                          after.events[k].participants[j].entity)
              /\ \A j \in 1..Len(before.events[k].children) :
                    Keeps(before.events[k].children[j],
                          after.events[k].children[j])
        /\ \A k \in 1..Len(RelationsOf(before)) :
              /\ Keeps(before.relations[k].relationSubject,
                       after.relations[k].relationSubject)
              /\ Keeps(before.relations[k].relationObject,
                       after.relations[k].relationObject)

\* C34: fix_atIds preserves what every reference points to: a field that
\* held the @id of element x holds the new @id of x afterwards, for every
\* document with pairwise distinct @id's, including documents whose @id's
\* already have the form cmu:Kind/NNNNN/name.
C34_ReferencesKeepTarget ==
    (/\ last.req.op = "fix_atIds"
     /\ last.status = "done"
     /\ DistinctIds(last.req.lib))
    => SameTargets(last.req.lib, last.lib)

\* What the code does have: with uuids, whose values no element has
\* before, every reference keeps its target.
C34_ReferencesKeepTargetWithUuids ==
    (/\ last.req.op = "fix_atIds"
     /\ last.status = "done"
     /\ last.req.use_uuids
     /\ DistinctIds(last.req.lib))
    => SameTargets(last.req.lib, last.lib)

Fetched ==
    {schema[i].data : i \in {j \in 1..Len(schema) :
        /\ \E k \in 1..Len(last.req.schema_ids) :
              schema[j].atId = last.req.schema_ids[k]
        /\ loads_sdf(schema[j].data).exc = NoExc}}

\* The identifiers that are the wd_node of an event of a fetched document.
Referenced ==
    UNION {{d.events[k].wd_node : k \in 1..Len(d.events)} : d \in Fetched}

\* The names of the events and of the entities of a document.
NamesIn(d) ==
    [events   |-> {d.events[k].name : k \in 1..Len(d.events)},
     entities |-> {d.entities[k].name : k \in 1..Len(d.entities)}]

\* Object e of the library, an event or an entity, is tagged with a stored
\* document that has an object of its kind and name.
TaggedWithOrigin(e, kind) ==
    /\ e.tag # NULL
    /\ \E i \in 1..Len(schema) :
          /\ schema[i].atId = e.tag
          /\ loads_sdf(schema[i].data).exc = NoExc
          /\ e.name \in NamesIn(schema[i].data)[kind]

\* The last request composed documents that could all be read.
Composed ==
    /\ last.req.op = "package_schemas"
    /\ last.raised \notin {"JSONDecodeError", "TypeError"}

Unleased(tbl) ==
    [i \in 1..Len(tbl) |-> [tbl[i] EXCEPT !.lock_ts = NULL, !.holder_id = NULL]]

\* C38: compose changes no stored document, lease or quarantine flag and
\* stores no new document, and its outcome does not depend on which leases
\* are held: it answers as it would with no lease held at all.
C38_ComposeReadsOnly ==
    [][last'.req.op = "package_schemas" =>
          /\ schema' = schema
          /\ \E free \in {package_schemas(Unleased(schema), wd_node,
                                          last'.req.online, last'.req.name,
                                          last'.req.schema_ids)} :
                /\ last'.raised = free.exc.kind
                /\ last'.returned = free.library]_vars

\* A library of t and its subschema was returned while a client held a
\* valid lease on t.
C38_Witness ==
    /\ last.req.op = "package_schemas"
    /\ last.status = "200"
    /\ \E k \in 1..Len(last.req.schema_ids) : last.req.schema_ids[k] = IdT
    /\ ValidAt(LeaseOf(schema, IdT), now)
    /\ Len(last.returned[1].events) > 1


\* The call of _fix_unused_args that has returned.
Pruned == last.status = "done" /\ last.req.op = "fix_unused_args"

\* The positions of the participants ps that name an identifier of present.
Resolving(ps, present) == {j \in 1..Len(ps) : ps[j].entity \in present}

\* qs holds the participants of ps that name an identifier of present, all
\* of them and in the order of ps.
KeptInOrder(ps, qs, present) ==
    /\ Len(qs) = Cardinality(Resolving(ps, present))
    /\ \A j \in Resolving(ps, present) :
          qs[Cardinality({i \in Resolving(ps, present) : i <= j})] = ps[j]

\* C39: in the library the final clean-up of compose leaves, each
\* participant of each event names the identifier of an entity or an event
\* of the library, and the participants that named one before the clean-up
\* are all kept, in their original order.
C39_ParticipantsResolveAndKept ==
    Pruned =>
        LET present == IdsOf(last.lib.entities) \cup IdsOf(last.lib.events)
        IN  /\ Len(last.lib.events) = Len(last.req.lib.events)
            /\ \A k \in 1..Len(last.lib.events) :
                  /\ \A j \in 1..Len(last.lib.events[k].participants) :
                        last.lib.events[k].participants[j].entity \in present
                  /\ KeptInOrder(last.req.lib.events[k].participants,
                                 last.lib.events[k].participants,
                                 IdsOf(last.req.lib.entities)
                                 \cup IdsOf(last.req.lib.events))

\* The clean-up dropped the first of three participants and kept one that
\* names an event and one that names an entity.
C39_Witness ==
    /\ Pruned
    /\ Len(last.req.lib.events[1].participants) = 3
    /\ Len(last.lib.events[1].participants) = 2
    /\ last.req.lib.events[1].participants[1].entity \notin IdsOf(last.lib.entities)
                                                          \cup IdsOf(last.lib.events)
    /\ last.lib.events[1].participants[1].entity = EvK(<<>>).atId
    /\ last.lib.events[1].participants[2].entity = EntX.atId


\* The call of _fix_children_gates that has returned.
Gated == last.status = "done" /\ last.req.op = "fix_children_gates"

\* C40: in the library the clean-up of compose leaves, each event has a
\* non-empty children list together with a children_gate, or neither of the
\* two; on a non-empty children list a gate that was there is kept as it
\* was and a missing one is "and".
C40_ChildrenAndGateTogether ==
    Gated =>
        /\ Len(last.lib.events) = Len(last.req.lib.events)
        /\ \A k \in 1..Len(last.lib.events) :
              LET was == last.req.lib.events[k]
                  is == last.lib.events[k]
              IN  /\ \/ is.children = NULL /\ is.children_gate = NULL
                     \/ /\ is.children # NULL
                        /\ is.children[1] # <<>>
                        /\ is.children_gate # NULL
                  /\ (was.children # NULL /\ was.children[1] # <<>>) =>
                        /\ is.children = was.children
                        /\ is.children_gate = IF was.children_gate = NULL
                                               THEN Some("and")
                                               ELSE was.children_gate

\* One call met an event with an empty children list and a gate, which lost
\* both, and an event with children and no gate, which got "and".
C40_Witness ==
    /\ Gated
    /\ Len(last.lib.events) = 2
    /\ last.req.lib.events[1].children = Some(<<>>)
    /\ last.req.lib.events[1].children_gate = Some("or")
    /\ last.lib.events[1].children = NULL
    /\ last.lib.events[1].children_gate = NULL
    /\ last.req.lib.events[2].children_gate = NULL
    /\ last.lib.events[2].children = Some(<<EvK(<<>>).atId>>)
    /\ last.lib.events[2].children_gate = Some("and")

====
